---------------------------- MODULE Spec2Model ----------------------------
(***************************************************************************)
(* A model of basicdb: the BasicDB facade (basicdb/basicdb.py) over the    *)
(* relational adapter (basicdb/sql_adapter.py) and a key-value blob stash. *)
(*                                                                         *)
(* The three tables are sets of rows.  Every adapter and facade method is  *)
(* an operator from a store state `s` (tables, stash, clock, uuid source)  *)
(* and the call's arguments to a result [s, err, ret]: the state after the *)
(* call, the exception raised ("ok" when none) and the value returned.     *)
(* The actions apply the facade methods to the current state.              *)
(***************************************************************************)
EXTENDS Integers, Sequences, FiniteSets, TLC

VARIABLES objects, blobs, relationships, stash, now, nuuid, written, last, given, running

vars == <<objects, blobs, relationships, stash, now, nuuid, written, last, given, running>>

(***************************************************************************)
(* Values.                                                                 *)
(***************************************************************************)

\* Python's None, for every string-valued field and argument.
None == "None"

\* No exception was raised.
Ok == "ok"

\* modification_time = None (times are clock readings >= 1).
NoTime == 0

\* An optional list argument: absent, or the list `l`.
NoList == [some |-> FALSE, v |-> <<>>]

List(l) == [some |-> TRUE, v |-> l]

Range(l) == {l[i] : i \in 1..Len(l)}

\* list(set(...)): the elements of a set as a list, in some order.
RECURSIVE AsList(_)
AsList(S) ==
    IF S = {} THEN <<>>
    ELSE LET x == CHOOSE y \in S : TRUE IN <<x>> \o AsList(S \ {x})

\* An identifier as the adapter tells them apart with isinstance(x, uuid.UUID):
\* a uuid, or anything else, which is taken as a name.
NoIdent == [kind |-> "none", v |-> None]

ByUuid(u) == [kind |-> "uuid", v |-> u]

ByName(n) == [kind |-> "name", v |-> n]

\* The n-th value drawn from uuid.uuid4(): never drawn twice.
uuid4(n) == "u" \o ToString(n)

\* str(uuid): the textual form, a string that is not a UUID.
str(u) == "str:" \o u

\* uuid.hex
hex(u) == "hex:" \o u

(***************************************************************************)
(* The values an extra mapping is built from.  A value is a record         *)
(* [kind, n, b, items]: an integer or boolean in n, the bytes of a float   *)
(* (its IEEE 754 double), of a byte string or of a text string (its UTF-8  *)
(* encoding) in b, and the elements of a list or tuple, or the keys and    *)
(* values of a dict in insertion order (key, value, key, value, ...), in   *)
(* items.  An integer of 2^31 or more is given by its bytes in b, most     *)
(* significant first and without leading zeros.  Instances of a dataclass  *)
(* and of a named tuple carry their fields in items.                       *)
(***************************************************************************)

IntV(n) == [kind |-> "int", n |-> n, b |-> <<>>, items |-> <<>>]

BigIntV(b) == [kind |-> "int", n |-> 0, b |-> b, items |-> <<>>]

BoolV(t) == [kind |-> "bool", n |-> IF t THEN 1 ELSE 0, b |-> <<>>, items |-> <<>>]

NoneV == [kind |-> "none", n |-> 0, b |-> <<>>, items |-> <<>>]

FloatV(b) == [kind |-> "float", n |-> 0, b |-> b, items |-> <<>>]

BytesV(b) == [kind |-> "bytes", n |-> 0, b |-> b, items |-> <<>>]

StrV(b) == [kind |-> "str", n |-> 0, b |-> b, items |-> <<>>]

ListV(items) == [kind |-> "list", n |-> 0, b |-> <<>>, items |-> items]

TupleV(items) == [kind |-> "tuple", n |-> 0, b |-> <<>>, items |-> items]

DictV(items) == [kind |-> "dict", n |-> 0, b |-> <<>>, items |-> items]

DataclassV(items) == [kind |-> "dataclass", n |-> 0, b |-> <<>>, items |-> items]

NamedTupleV(items) == [kind |-> "namedtuple", n |-> 0, b |-> <<>>, items |-> items]

\* msgpack.ExtType(code, data), as unpacking returns an extension it does not
\* know.
ExtTypeV(code, data) == [kind |-> "ExtType", n |-> code, b |-> data, items |-> <<>>]

\* a == b on two values: a NaN equals nothing, lists and tuples are equal to
\* their own kind element by element, dicts key by key whatever the order.
RECURSIVE equal(_, _)
equal(a, b) ==
    LET isnan(x) == /\ x.b[1] \in {127, 255} /\ x.b[2] >= 240
                    /\ \E i \in 2..8 : x.b[i] # (IF i = 2 THEN 240 ELSE 0)
        pairs(d) == {<<d.items[2 * i - 1], d.items[2 * i]>> : i \in 1..(Len(d.items) \div 2)}
        within(x, y) == \A p \in pairs(x) : \E q \in pairs(y) :
                            equal(p[1], q[1]) /\ equal(p[2], q[2])
    IN IF a.kind # b.kind THEN FALSE
       ELSE IF a.kind = "float" THEN ~isnan(a) /\ a.b = b.b
       ELSE IF a.kind = "dict" THEN within(a, b) /\ within(b, a)
       ELSE /\ a.n = b.n /\ a.b = b.b /\ Len(a.items) = Len(b.items)
            /\ \A i \in 1..Len(a.items) : equal(a.items[i], b.items[i])

\* isinstance(extra, dict)
isinstance_dict(extra) == extra.kind = "dict"

\* The keys of a dict, in insertion order.
RECURSIVE dict_keys(_)
dict_keys(items) ==
    IF items = <<>> THEN <<>> ELSE <<items[1]>> \o dict_keys(SubSeq(items, 3, Len(items)))

\* d[key] = value on the items of a dict: the value of a key it has is
\* replaced in place, a new key is appended.
dict_set(items, key, value) ==
    IF \E i \in 1..(Len(items) \div 2) : items[2 * i - 1] = key
    THEN [j \in 1..Len(items) |->
            IF j % 2 = 0 /\ items[j - 1] = key THEN value ELSE items[j]]
    ELSE items \o <<key, value>>

\* key in d
dict_has(items, key) == \E i \in 1..(Len(items) \div 2) : items[2 * i - 1] = key

\* d[key], for a key d has
dict_get(items, key) ==
    items[2 * (CHOOSE i \in 1..(Len(items) \div 2) : items[2 * i - 1] = key)]

(***************************************************************************)
(* utils.pack_extra / unpack_extra: msgpack with strict types, byte        *)
(* strings as bin, and tuples as the extension type 10 holding the packed  *)
(* list of their elements.  A packing is [err, bytes].                     *)
(***************************************************************************)

\* The first byte of a map and of an array of fewer than 16 entries, and of a
\* text string of fewer than 32 bytes.
FixMap == 128

FixArray == 144

FixStr == 160

\* The extension type of a tuple.
TupleExt == 10

Packed(bytes) == [err |-> Ok, bytes |-> bytes]

PackError(e) == [err |-> e, bytes |-> <<>>]

\* The n least significant bytes of x, most significant first.
RECURSIVE big_endian(_, _)
big_endian(x, n) ==
    IF n = 0 THEN <<>> ELSE big_endian(x \div 256, n - 1) \o <<x % 256>>

\* The number a sequence of bytes is, most significant first.
RECURSIVE from_big_endian(_)
from_big_endian(b) ==
    IF b = <<>> THEN 0 ELSE 256 * from_big_endian(SubSeq(b, 1, Len(b) - 1)) + b[Len(b)]

\* msgpack's integer formats: fixint, uint 8/16/32, int 8/16/32 (uint 64 is
\* packed by packb).
pack_int(n) ==
    IF n >= 0
    THEN (IF n < 128 THEN <<n>>
          ELSE IF n < 256 THEN <<204, n>>
          ELSE IF n < 65536 THEN <<205>> \o big_endian(n, 2)
          ELSE <<206>> \o big_endian(n, 4))
    ELSE (IF n >= -32 THEN <<256 + n>>
          ELSE IF n >= -128 THEN <<208, 256 + n>>
          ELSE IF n >= -32768 THEN <<209>> \o big_endian(65536 + n, 2)
          ELSE LET low == big_endian(2147483647 + n + 1, 4)
               IN <<210, 128 + low[1], low[2], low[3], low[4]>>)

\* msgpack's extension formats: fixext 1, 2, 4, 8, 16, else ext 8.
pack_ext(code, data) ==
    IF Len(data) = 1 THEN <<212, code>> \o data
    ELSE IF Len(data) = 2 THEN <<213, code>> \o data
    ELSE IF Len(data) = 4 THEN <<214, code>> \o data
    ELSE IF Len(data) = 8 THEN <<215, code>> \o data
    ELSE IF Len(data) = 16 THEN <<216, code>> \o data
    ELSE <<199, Len(data), code>> \o data

RECURSIVE pack_extra(_)

\* default packing the fields of a named tuple or a dataclass as a tuple.
default_coercing(obj) ==
    LET ext(packed) == IF packed.err # Ok THEN packed
                       ELSE Packed(pack_ext(TupleExt, packed.bytes))
    IN IF obj.kind \in {"tuple", "namedtuple", "dataclass"}
       THEN ext(pack_extra(ListV(obj.items)))
       ELSE PackError("TypeError")

\* def default(obj): the hook msgpack calls for a type it does not pack itself
default(obj) ==
    LET ext(packed) == IF packed.err # Ok THEN packed
                       ELSE Packed(pack_ext(TupleExt, packed.bytes))
    IN IF obj.kind = "tuple" THEN ext(pack_extra(ListV(obj.items)))
       ELSE PackError("TypeError")

RECURSIVE packb(_)

\* The packings of the elements of a sequence, one after the other.
RECURSIVE pack_items(_)
pack_items(items) ==
    LET join(head, rest) == IF head.err # Ok THEN head
                            ELSE IF rest.err # Ok THEN rest
                            ELSE Packed(head.bytes \o rest.bytes)
    IN IF items = <<>> THEN Packed(<<>>)
       ELSE join(packb(Head(items)), pack_items(Tail(items)))

\* msgpack.packb(o, default=default, strict_types=True, use_bin_type=True)
packb(o) ==
    LET after(header, body) == IF body.err # Ok THEN body
                               ELSE Packed(header \o body.bytes)
        \* the bytes of an integer of 2^31 or more, as n bytes
        padded(n) == [j \in 1..n |-> IF j <= n - Len(o.b) THEN 0
                                      ELSE o.b[j - (n - Len(o.b))]]
    IN IF o.kind = "none" THEN Packed(<<192>>)
       ELSE IF o.kind = "bool" THEN Packed(<<194 + o.n>>)
       ELSE IF o.kind = "int" /\ o.b = <<>> THEN Packed(pack_int(o.n))
       ELSE IF o.kind = "int" /\ Len(o.b) <= 4 THEN Packed(<<206>> \o padded(4))
       ELSE IF o.kind = "int" /\ Len(o.b) <= 8 THEN Packed(<<207>> \o padded(8))
       \* an integer of 2^64 or more overflows and is handed to default
       ELSE IF o.kind = "float" THEN Packed(<<203>> \o o.b)
       ELSE IF o.kind = "str"
            THEN Packed((IF Len(o.b) < 32 THEN <<FixStr + Len(o.b)>>
                         ELSE <<217, Len(o.b)>>) \o o.b)
       ELSE IF o.kind = "bytes" THEN Packed(<<196, Len(o.b)>> \o o.b)
       ELSE IF o.kind = "list" THEN after(<<FixArray + Len(o.items)>>, pack_items(o.items))
       ELSE IF o.kind = "dict"
            THEN after(<<FixMap + (Len(o.items) \div 2)>>, pack_items(o.items))
       ELSE default(o)

pack_extra(extra) == packb(extra)

RECURSIVE unpack_extra(_)

\* tuple(x) of a list (or of a dict: its keys)
tuple(x) == TupleV(IF x.kind = "dict" THEN dict_keys(x.items) ELSE x.items)

\* def ext_hook(code, data), returning lists for tuples
ext_hook_as_list(code, data) ==
    IF code = TupleExt THEN unpack_extra(data) ELSE ExtTypeV(code, data)

\* def ext_hook(code, data)
ext_hook(code, data) ==
    IF code = TupleExt THEN tuple(unpack_extra(data)) ELSE ExtTypeV(code, data)

\* The dict of the keys and values read one after the other.
RECURSIVE as_dict(_, _)
as_dict(read, items) ==
    IF read = <<>> THEN items
    ELSE as_dict(SubSeq(read, 3, Len(read)), dict_set(items, read[1], read[2]))

RECURSIVE unpack_at(_, _)

\* The n values that start at byte i: [items, next].
RECURSIVE unpack_n(_, _, _)
unpack_n(b, i, n) ==
    LET more(head) ==
            LET all(rest) == [items |-> <<head.v>> \o rest.items, next |-> rest.next]
            IN all(unpack_n(b, head.next, n - 1))
    IN IF n = 0 THEN [items |-> <<>>, next |-> i]
       ELSE more(unpack_at(b, i))

\* The value that starts at byte i, and the place of the byte after it:
\* [v, next].
unpack_at(b, i) ==
    LET c == b[i]
        len1 == b[i + 1]
        bytes(from, n) == SubSeq(b, from, from + n - 1)
        array(r) == [v |-> ListV(r.items), next |-> r.next]
        map(r) == [v |-> DictV(as_dict(r.items, <<>>)), next |-> r.next]
        fixext(n) == [v |-> ext_hook(b[i + 1], bytes(i + 2, n)), next |-> i + 2 + n]
        \* the unsigned integer of n bytes that starts at byte i + 1
        uint(n) ==
            LET zeros == CHOOSE k \in 0..n :
                            /\ \A j \in 1..k : b[i + j] = 0
                            /\ k < n => b[i + k + 1] # 0
                digits == bytes(i + 1 + zeros, n - zeros)
            IN IF Len(digits) < 4 \/ (Len(digits) = 4 /\ digits[1] < 128)
               THEN IntV(from_big_endian(digits))
               ELSE BigIntV(digits)
    IN IF c < 128 THEN [v |-> IntV(c), next |-> i + 1]
       ELSE IF c < FixArray THEN map(unpack_n(b, i + 1, 2 * (c - FixMap)))
       ELSE IF c < FixStr THEN array(unpack_n(b, i + 1, c - FixArray))
       ELSE IF c < 192 THEN [v |-> StrV(bytes(i + 1, c - FixStr)), next |-> i + 1 + c - FixStr]
       ELSE IF c = 192 THEN [v |-> NoneV, next |-> i + 1]
       ELSE IF c = 194 THEN [v |-> BoolV(FALSE), next |-> i + 1]
       ELSE IF c = 195 THEN [v |-> BoolV(TRUE), next |-> i + 1]
       ELSE IF c = 196 THEN [v |-> BytesV(bytes(i + 2, len1)), next |-> i + 2 + len1]
       ELSE IF c = 199
            THEN [v |-> ext_hook(b[i + 2], bytes(i + 3, len1)), next |-> i + 3 + len1]
       ELSE IF c = 203 THEN [v |-> FloatV(bytes(i + 1, 8)), next |-> i + 9]
       ELSE IF c = 204 THEN [v |-> IntV(len1), next |-> i + 2]
       ELSE IF c = 205 THEN [v |-> IntV(from_big_endian(bytes(i + 1, 2))), next |-> i + 3]
       ELSE IF c = 206 THEN [v |-> uint(4), next |-> i + 5]
       ELSE IF c = 207 THEN [v |-> uint(8), next |-> i + 9]
       ELSE IF c = 208 THEN [v |-> IntV(len1 - 256), next |-> i + 2]
       ELSE IF c = 209
            THEN [v |-> IntV(from_big_endian(bytes(i + 1, 2)) - 65536), next |-> i + 3]
       ELSE IF c = 210
            THEN [v |-> IntV(from_big_endian(<<len1 - 128>> \o bytes(i + 2, 3))
                                - 2147483647 - 1),
                  next |-> i + 5]
       ELSE IF c = 212 THEN fixext(1)
       ELSE IF c = 213 THEN fixext(2)
       ELSE IF c = 214 THEN fixext(4)
       ELSE IF c = 215 THEN fixext(8)
       ELSE IF c = 216 THEN fixext(16)
       ELSE IF c = 217 THEN [v |-> StrV(bytes(i + 2, len1)), next |-> i + 2 + len1]
       ELSE [v |-> IntV(c - 256), next |-> i + 1]

\* msgpack.unpackb(extra_bytes, ext_hook=ext_hook, strict_map_key=False)
unpack_extra(extra_bytes) == unpack_at(extra_bytes, 1).v

\* The empty mapping {}.
EmptyExtra == DictV(<<>>)

(***************************************************************************)
(* BasicDB.serialize / deserialize.  Blob data is raw bytes, a small       *)
(* integer object, None or a generator object; pickle.dumps (protocol 4)   *)
(* of a small integer n is the five bytes 80 04 'K' n '.', of None the     *)
(* four bytes 80 04 'N' '.', and of a generator object it raises           *)
(* TypeError.                                                              *)
(***************************************************************************)

Bytes(b) == [kind |-> "bytes", bytes |-> b, obj |-> 0]

PyInt(n) == [kind |-> "int", bytes |-> <<>>, obj |-> n]

\* isinstance(data, bytes)
isinstance_bytes(data) == data.kind = "bytes"

\* data = None: also what insert takes for "no blob given".
NoData == [kind |-> "none", bytes |-> <<>>, obj |-> 0]

\* A generator object: pickle.dumps cannot pickle it.
Generator == [kind |-> "generator", bytes |-> <<>>, obj |-> 0]

\* pickle.dumps(data) returns.
picklable(data) == data.kind # "generator"

\* pickle.dumps(data)
serialize(data) ==
    IF data.kind = "none" THEN <<128, 4, 78, 46>>
    ELSE <<128, 4, 75, data.obj, 46>>

\* pickle.loads fails on anything that is not a pickle.
is_pickle(b) ==
    \/ b = <<128, 4, 78, 46>>
    \/ Len(b) = 5 /\ b[1] = 128 /\ b[2] = 4 /\ b[3] = 75 /\ b[5] = 46

\* deserialize handing back the stored bytes whatever the tag says.
deserialize_raw(b, serialization) == [err |-> Ok, ret |-> Bytes(b)]

deserialize(b, serialization) ==
    IF serialization = None THEN [err |-> Ok, ret |-> Bytes(b)]
    ELSE IF serialization # "pickle" THEN [err |-> "AssertionError", ret |-> NoData]
    ELSE IF ~is_pickle(b) THEN [err |-> "UnpicklingError", ret |-> NoData]
    ELSE IF Len(b) = 4 THEN [err |-> Ok, ret |-> NoData]
    ELSE [err |-> Ok, ret |-> PyInt(b[4])]

get_blob_key_shared(self, blob_uuid) == self.stash_blob_prefix

get_blob_key(self, blob_uuid) == self.stash_blob_prefix \o "/" \o hex(blob_uuid)

(***************************************************************************)
(* The tables' uniqueness rules (sql_adapter.py, __table_args__), as the   *)
(* database enforces them when a session is flushed.                       *)
(***************************************************************************)

\* Index object_unique1: (namespace, name) unique where namespace IS NOT NULL.
object_unique1(rows) ==
    \A a \in rows : \A b \in rows :
        (a.uuid # b.uuid /\ a.namespace # None /\ b.namespace # None)
            => ~(a.namespace = b.namespace /\ a.name = b.name)

\* The objects table without its second index.
object_unique2_dropped(rows) == TRUE

\* Index object_unique2: name unique where namespace IS NULL.
object_unique2(rows) ==
    \A a \in rows : \A b \in rows :
        (a.uuid # b.uuid /\ a.namespace = None /\ b.namespace = None)
            => a.name # b.name

\* Index blob_unique1: (parent, name) unique where name IS NOT NULL.
blob_unique1(rows) ==
    \A a \in rows : \A b \in rows :
        (a.uuid # b.uuid /\ a.name # None /\ b.name # None)
            => ~(a.parent = b.parent /\ a.name = b.name)

\* The blobs table without its second index.
blob_unique2_dropped(rows) == TRUE

\* Index blob_unique2: parent unique where name IS NULL.
blob_unique2(rows) ==
    \A a \in rows : \A b \in rows :
        (a.uuid # b.uuid /\ a.name = None /\ b.name = None)
            => a.parent # b.parent

\* The relationships table without its first index.
relationship_unique1_dropped(rows) == TRUE

\* Index relationship_unique1: (first, second, type_) unique where type_ IS NOT NULL.
relationship_unique1(rows) ==
    \A a \in rows : \A b \in rows :
        (a.uuid # b.uuid /\ a.type_ # None /\ b.type_ # None)
            => ~(a.first = b.first /\ a.second = b.second /\ a.type_ = b.type_)

\* Index relationship_unique2: (first, second) unique where type_ IS NULL.
relationship_unique2(rows) ==
    \A a \in rows : \A b \in rows :
        (a.uuid # b.uuid /\ a.type_ = None /\ b.type_ = None)
            => ~(a.first = b.first /\ a.second = b.second)

\* Column objects.name is NOT NULL.
object_name_not_null(rows) == \A a \in rows : a.name # None

\* session_scope without the rollback: what the session did stays.
session_scope_no_rollback(s, s2) ==
    IF /\ object_unique1(s2.objects) /\ object_unique2(s2.objects)
       /\ object_name_not_null(s2.objects)
       /\ blob_unique1(s2.blobs) /\ blob_unique2(s2.blobs)
       /\ relationship_unique1(s2.relationships)
       /\ relationship_unique2(s2.relationships)
    THEN [s |-> s2, err |-> Ok]
    ELSE [s |-> s2, err |-> "sqla.exc.IntegrityError"]

\* session_scope: the work of the session turned `s` into `s2`; the commit
\* flushes it, and a violated constraint raises sqlalchemy's IntegrityError,
\* on which the session is rolled back.
session_scope(s, s2) ==
    IF /\ object_unique1(s2.objects) /\ object_unique2(s2.objects)
       /\ object_name_not_null(s2.objects)
       /\ blob_unique1(s2.blobs) /\ blob_unique2(s2.blobs)
       /\ relationship_unique1(s2.relationships)
       /\ relationship_unique2(s2.relationships)
    THEN [s |-> s2, err |-> Ok]
    ELSE [s |-> s, err |-> "sqla.exc.IntegrityError"]

session_next_unclosed(pc, err) ==
    IF pc = "yield" THEN (IF err = Ok THEN "commit" ELSE "rollback")
    ELSE IF pc = "commit" THEN (IF err = Ok THEN "close" ELSE "rollback")
    ELSE "exit"

\* session_scope, a statement at a time: the statement that follows `pc`,
\* which ended with `err`.
\*     try: yield session; session.commit()
\*     except: session.rollback(); raise
\*     finally: session.close()
session_next(pc, err) ==
    IF pc = "yield" THEN (IF err = Ok THEN "commit" ELSE "rollback")
    ELSE IF pc = "commit" THEN (IF err = Ok THEN "close" ELSE "rollback")
    ELSE IF pc = "rollback" THEN "close"
    ELSE "exit"

\* except sqla.exc.IntegrityError as e: raise exceptions.IntegrityError from e
translate(err) == IF err = "sqla.exc.IntegrityError" THEN "IntegrityError" ELSE err

(***************************************************************************)
(* SQLAdapter: the read operations.  A result is [err, rows, single]: the  *)
(* rows of the list the method builds, and whether it returns one row (or  *)
(* None) instead of the list.                                              *)
(***************************************************************************)

\* The keyword arguments of get_object, at their defaults.
get_object_args ==
    [uuid |-> None, uuids |-> NoList, namespace |-> None, name |-> None,
     names |-> NoList, type_ |-> None, subtype |-> None, include_hidden |-> FALSE,
     relationship_first |-> NoIdent, relationship_second |-> NoIdent,
     relationship_type |-> None, assert_exists |-> FALSE, filter_namespace |-> TRUE]

\* A relationship type_ filter: None, one string, or a list of strings.
NoType == [kind |-> "none", str |-> None, list |-> <<>>]

TypeStr(t) == [kind |-> "str", str |-> t, list |-> <<>>]

TypeList(l) == [kind |-> "list", str |-> None, list |-> l]

\* get_object handing no relationship type on.
TypeArg_dropped(t) == NoType

\* relationship_type as get_object hands it on: None or the string.
TypeArg(t) == IF t = None THEN NoType ELSE TypeStr(t)

\* The keyword arguments of get_relationships, at their defaults.
get_relationships_args ==
    [uuid |-> None, uuids |-> NoList, first |-> NoIdent, second |-> NoIdent,
     type_ |-> NoType, namespace |-> None, filter_namespace |-> FALSE,
     include_hidden |-> FALSE, assert_exists |-> FALSE]

\* The keyword arguments of get_blobs, at their defaults.  object_identifier is
\* None, one identifier, or a list of uuids (object_list).
get_blobs_args ==
    [object_identifier |-> NoIdent, object_list |-> NoList, match_name |-> FALSE,
     name |-> None, uuid |-> None, uuids |-> NoList, include_hidden |-> FALSE,
     check_namespace |-> FALSE, namespace_to_check |-> None, assert_exists |-> FALSE]

ReadError(e) == [err |-> e, rows |-> {}, single |-> FALSE]

\* get_object without its filter on hidden.
object_hidden_filter_off(include_hidden, o) == TRUE

\* if not include_hidden: filters.append(Object.hidden == False)
object_hidden_filter(include_hidden, o) == include_hidden \/ ~o.hidden

\* get_object without its filter on namespace.
object_namespace_filter_off(filter_namespace, namespace, o) == TRUE

\* if filter_namespace or namespace is not None:
\*     filters.append(Object.namespace == namespace)
object_namespace_filter(filter_namespace, namespace, o) ==
    (filter_namespace \/ namespace # None) => o.namespace = namespace

RECURSIVE SQLAdapter_get_object(_, _)

SQLAdapter_get_object_from_identifier_hidden_too(s, uuid_or_name, check_namespace, namespace, include_hidden, assert_exists) ==
    SQLAdapter_get_object(s,
        IF uuid_or_name.kind = "uuid"
        THEN [get_object_args EXCEPT !.uuid = uuid_or_name.v,
                                     !.filter_namespace = check_namespace,
                                     !.namespace = namespace,
                                     !.include_hidden = TRUE,
                                     !.assert_exists = assert_exists]
        ELSE [get_object_args EXCEPT !.name = uuid_or_name.v,
                                     !.filter_namespace = TRUE,
                                     !.namespace = namespace,
                                     !.include_hidden = TRUE,
                                     !.assert_exists = assert_exists])

SQLAdapter_get_object_from_identifier_unscoped(s, uuid_or_name, check_namespace, namespace, include_hidden, assert_exists) ==
    SQLAdapter_get_object(s,
        IF uuid_or_name.kind = "uuid"
        THEN [get_object_args EXCEPT !.uuid = uuid_or_name.v,
                                     !.filter_namespace = check_namespace,
                                     !.namespace = namespace,
                                     !.include_hidden = include_hidden,
                                     !.assert_exists = assert_exists]
        ELSE [get_object_args EXCEPT !.name = uuid_or_name.v,
                                     !.filter_namespace = check_namespace,
                                     !.namespace = namespace,
                                     !.include_hidden = include_hidden,
                                     !.assert_exists = assert_exists])

SQLAdapter_get_object_from_identifier(s, uuid_or_name, check_namespace, namespace, include_hidden, assert_exists) ==
    SQLAdapter_get_object(s,
        IF uuid_or_name.kind = "uuid"
        THEN [get_object_args EXCEPT !.uuid = uuid_or_name.v,
                                     !.filter_namespace = check_namespace,
                                     !.namespace = namespace,
                                     !.include_hidden = include_hidden,
                                     !.assert_exists = assert_exists]
        ELSE [get_object_args EXCEPT !.name = uuid_or_name.v,
                                     !.filter_namespace = TRUE,
                                     !.namespace = namespace,
                                     !.include_hidden = include_hidden,
                                     !.assert_exists = assert_exists])

\* The rows of `rels` whose first endpoint is an object of `namespace`, as the
\* list comprehension over namespace_by_first_uuid computes them: a row whose
\* first endpoint is not among the objects fetched raises KeyError.
filter_by_first_namespace(s, rels, namespace, include_hidden) ==
    LET objs_uuids == AsList({x.first : x \in rels})
        filter(tmp_objs) ==
            IF \E x \in rels : x.first \notin {o.uuid : o \in tmp_objs}
            THEN ReadError("KeyError")
            ELSE [err |-> Ok,
                  rows |-> {x \in rels :
                             \E o \in tmp_objs : o.uuid = x.first /\ o.namespace = namespace},
                  single |-> FALSE]
    IN filter(SQLAdapter_get_object(s,
                [get_object_args EXCEPT !.uuids = List(objs_uuids),
                                        !.include_hidden = include_hidden,
                                        !.filter_namespace = TRUE,
                                        !.namespace = namespace]).rows)

SQLAdapter_get_relationships(s, q) ==
    IF q.uuid = None /\ ~q.uuids.some
    THEN LET has_first == q.first.kind # "none"
             has_second == q.second.kind # "none"
             single == has_first /\ has_second /\ q.type_.kind # "none"
             \* what run_query_with_optional_session returned, as get_relationships
             \* returns it
             returned(res) ==
                IF res.err # Ok THEN res
                ELSE IF single
                     THEN (IF q.assert_exists /\ Cardinality(res.rows) # 1
                           THEN ReadError("AssertionError")
                           ELSE [err |-> Ok,
                                 rows |-> IF Cardinality(res.rows) = 1 THEN res.rows ELSE {},
                                 single |-> TRUE])
                ELSE IF q.assert_exists /\ res.rows = {}
                     THEN ReadError("AssertionError")
                ELSE res
             query(first_obj, second_obj) ==
                LET matches(x) ==
                        /\ q.include_hidden \/ ~x.hidden
                        /\ q.type_.kind = "list" => x.type_ \in Range(q.type_.list)
                        /\ q.type_.kind = "str" => x.type_ = q.type_.str
                        /\ has_first => \E o \in first_obj.rows : x.first = o.uuid
                        /\ has_second => \E o \in second_obj.rows : x.second = o.uuid
                    cur_res == {x \in s.relationships : matches(x)}
                IN IF has_first /\ first_obj.err # Ok THEN ReadError(first_obj.err)
                   ELSE IF has_first /\ first_obj.rows = {}
                        THEN (IF q.assert_exists THEN ReadError("AssertionError")
                              ELSE [err |-> Ok, rows |-> {}, single |-> single])
                   ELSE IF has_second /\ second_obj.err # Ok
                        THEN ReadError(second_obj.err)
                   ELSE IF has_second /\ second_obj.rows = {}
                        THEN (IF q.assert_exists THEN ReadError("AssertionError")
                              ELSE [err |-> Ok, rows |-> {}, single |-> single])
                   ELSE returned(IF ~has_first /\ ~has_second /\ q.filter_namespace
                                 THEN filter_by_first_namespace(s, cur_res, q.namespace,
                                                                q.include_hidden)
                                 ELSE [err |-> Ok, rows |-> cur_res, single |-> FALSE])
         IN query(SQLAdapter_get_object_from_identifier(s, q.first, q.filter_namespace,
                        q.namespace, q.include_hidden, FALSE),
                  SQLAdapter_get_object_from_identifier(s, q.second, q.filter_namespace,
                        q.namespace, q.include_hidden, FALSE))
    ELSE IF \/ q.uuid # None /\ q.uuids.some
            \/ q.first.kind # "none" \/ q.second.kind # "none"
            \/ q.type_.kind # "none"
         THEN ReadError("AssertionError")
    ELSE LET cur_res == {x \in s.relationships :
                            /\ IF q.uuid # None THEN x.uuid = q.uuid
                               ELSE x.uuid \in Range(q.uuids.v)
                            /\ q.include_hidden \/ ~x.hidden}
             returned(cur_res2) ==
                IF cur_res2.err # Ok THEN cur_res2
                ELSE IF q.uuid = None
                     THEN (IF q.assert_exists /\ cur_res2.rows = {}
                           THEN ReadError("AssertionError")
                           ELSE cur_res2)
                ELSE IF q.assert_exists /\ Cardinality(cur_res2.rows) # 1
                     THEN ReadError("AssertionError")
                ELSE [err |-> Ok,
                      rows |-> IF Cardinality(cur_res2.rows) = 1 THEN cur_res2.rows ELSE {},
                      single |-> TRUE]
         IN returned(IF q.filter_namespace
                     THEN filter_by_first_namespace(s, cur_res, q.namespace,
                                                    q.include_hidden)
                     ELSE [err |-> Ok, rows |-> cur_res, single |-> FALSE])

SQLAdapter_get_object(s, q) ==
    LET by_rel == q.relationship_first.kind # "none" \/ q.relationship_second.kind # "none"
        singular_query == q.uuid # None \/ (q.name # None /\ q.filter_namespace)
        query(rels) ==
            LET rel_other_uuids == IF q.relationship_first.kind # "none"
                                   THEN {x.second : x \in rels.rows}
                                   ELSE {x.first : x \in rels.rows}
                matches(o) ==
                    /\ object_hidden_filter(q.include_hidden, o)
                    /\ q.uuid # None => o.uuid = q.uuid
                    /\ q.uuids.some => o.uuid \in Range(q.uuids.v)
                    /\ q.name # None => o.name = q.name
                    /\ q.names.some => o.name \in Range(q.names.v)
                    /\ object_namespace_filter(q.filter_namespace, q.namespace, o)
                    /\ q.type_ # None => o.type_ = q.type_
                    /\ q.subtype # None => o.subtype = q.subtype
                    /\ by_rel => o.uuid \in rel_other_uuids
                res == {o \in s.objects : matches(o)}
            IN IF \/ q.relationship_type # None /\ ~by_rel
                  \/ q.relationship_first.kind # "none"
                        /\ q.relationship_second.kind # "none"
               THEN ReadError("AssertionError")
               ELSE IF rels.err # Ok THEN ReadError(rels.err)
               ELSE IF q.assert_exists /\ res = {} THEN ReadError("AssertionError")
               ELSE IF singular_query /\ Cardinality(res) > 1
                    THEN ReadError("AssertionError")
               ELSE [err |-> Ok, rows |-> res, single |-> singular_query]
    IN query(IF by_rel
             THEN SQLAdapter_get_relationships(s,
                    [get_relationships_args EXCEPT
                        !.first = q.relationship_first,
                        !.second = q.relationship_second,
                        !.type_ = TypeArg(q.relationship_type),
                        !.include_hidden = q.include_hidden,
                        !.namespace = q.namespace,
                        !.filter_namespace = FALSE,
                        !.assert_exists = FALSE])
             ELSE [err |-> Ok, rows |-> {}, single |-> FALSE])

SQLAdapter_get_blobs(s, q) ==
    IF q.object_list.some
    THEN \* a list of object uuids: the blobs grouped by parent
         LET query(cur_objs) ==
                IF \/ q.uuid # None \/ q.uuids.some
                   \/ q.assert_exists \/ q.match_name \/ q.name # None
                THEN ReadError("AssertionError")
                ELSE IF cur_objs.err # Ok THEN ReadError(cur_objs.err)
                ELSE IF Cardinality(cur_objs.rows) # Len(q.object_list.v)
                     THEN ReadError("AssertionError")
                ELSE [err |-> Ok,
                      rows |-> {b \in s.blobs :
                                    /\ b.parent \in Range(q.object_list.v)
                                    /\ q.include_hidden \/ ~b.hidden},
                      single |-> FALSE]
         IN query(SQLAdapter_get_object(s,
                    [get_object_args EXCEPT
                        !.uuids = q.object_list,
                        !.filter_namespace = q.check_namespace,
                        !.namespace = q.namespace_to_check,
                        !.include_hidden = q.include_hidden]))
    ELSE IF q.object_identifier.kind # "none"
    THEN LET query(cur_obj) ==
                LET res == {b \in s.blobs :
                                /\ \E o \in cur_obj.rows : b.parent = o.uuid
                                /\ q.include_hidden \/ ~b.hidden
                                /\ q.match_name => b.name = q.name}
                IN IF q.uuid # None \/ q.uuids.some THEN ReadError("AssertionError")
                   ELSE IF cur_obj.err # Ok THEN ReadError(cur_obj.err)
                   ELSE IF cur_obj.rows = {} THEN ReadError("ObjectNotFoundError")
                   ELSE IF q.match_name
                        THEN (IF \/ Cardinality(res) > 1
                                 \/ q.assert_exists /\ Cardinality(res) # 1
                              THEN ReadError("AssertionError")
                              ELSE [err |-> Ok, rows |-> res, single |-> TRUE])
                   ELSE [err |-> Ok, rows |-> res, single |-> FALSE]
         IN query(SQLAdapter_get_object_from_identifier(s, q.object_identifier,
                        q.check_namespace, q.namespace_to_check, q.include_hidden, FALSE))
    ELSE IF (q.uuid = None /\ ~q.uuids.some) \/ (q.uuid # None /\ q.uuids.some)
    THEN ReadError("AssertionError")
    ELSE LET cur_res == {b \in s.blobs :
                            /\ IF q.uuid # None THEN b.uuid = q.uuid
                               ELSE b.uuid \in Range(q.uuids.v)
                            /\ q.include_hidden \/ ~b.hidden}
             objs_uuids == AsList({x.parent : x \in cur_res})
             query(tmp_objs) ==
                IF q.check_namespace /\ tmp_objs.err # Ok THEN ReadError(tmp_objs.err)
                ELSE IF q.check_namespace /\ Len(objs_uuids) # Cardinality(tmp_objs.rows)
                     THEN ReadError("AssertionError")
                ELSE IF q.uuid # None
                     THEN (IF q.assert_exists /\ Cardinality(cur_res) # 1
                           THEN ReadError("AssertionError")
                           ELSE [err |-> Ok,
                                 rows |-> IF Cardinality(cur_res) = 1 THEN cur_res ELSE {},
                                 single |-> TRUE])
                ELSE IF q.assert_exists /\ cur_res = {} THEN ReadError("AssertionError")
                ELSE [err |-> Ok, rows |-> cur_res, single |-> FALSE]
         IN query(SQLAdapter_get_object(s,
                    [get_object_args EXCEPT
                        !.uuids = List(objs_uuids),
                        !.include_hidden = q.include_hidden,
                        !.filter_namespace = TRUE,
                        !.namespace = q.namespace_to_check]))

(***************************************************************************)
(* SQLAdapter: the write operations.  A result is [s, err, ret].  A write  *)
(* that raises leaves `s` as it was: the session is rolled back.           *)
(***************************************************************************)

Object_to_public(o) ==
    [uuid |-> o.uuid, namespace |-> o.namespace, name |-> o.name, type_ |-> o.type_,
     subtype |-> o.subtype, creation_time |-> o.creation_time,
     modification_time |-> o.modification_time, hidden |-> o.hidden,
     username |-> o.username, extra |-> unpack_extra(o.extra_data)]

Blob_to_public(b) ==
    [uuid |-> b.uuid, parent |-> b.parent, name |-> b.name, type_ |-> b.type_,
     size |-> b.size, creation_time |-> b.creation_time,
     modification_time |-> b.modification_time, hidden |-> b.hidden,
     username |-> b.username, serialization |-> b.serialization,
     extra |-> unpack_extra(b.extra_data)]

Relationship_to_public(r) ==
    [uuid |-> r.uuid, first |-> r.first, second |-> r.second, type_ |-> r.type_,
     hidden |-> r.hidden]

(***************************************************************************)
(* entities.Object and entities.Blob: the dataclasses' item and attribute  *)
(* access.  An instance is the record of its declared fields; a key is a   *)
(* value, an attribute name a string, which as a key of extra is the text  *)
(* string of its UTF-8 bytes.                                              *)
(***************************************************************************)

\* The text string an attribute name is.
attr_key(name) ==
    StrV(CASE name = "key" -> <<107, 101, 121>>
           [] name = "foo" -> <<102, 111, 111>>
           [] name = "not_a_field" -> <<110, 111, 116, 95, 97, 95, 102, 105, 101, 108, 100>>
           [] name = "name" -> <<110, 97, 109, 101>>
           [] name = "username" -> <<117, 115, 101, 114, 110, 97, 109, 101>>
           [] name = "hidden" -> <<104, 105, 100, 100, 101, 110>>)

\* What an access returns or raises: [err, ret].
Got(v) == [err |-> Ok, ret |-> v]

\* def __getitem__(self, key): return self.extra[key]
Object_getitem(self, key) ==
    IF dict_has(self.extra.items, key) THEN Got(dict_get(self.extra.items, key))
    ELSE [err |-> "KeyError", ret |-> NoneV]

\* def __setitem__(self, key, value): self.extra[key] = value
Object_setitem(self, key, value) ==
    [self EXCEPT !.extra = DictV(dict_set(@.items, key, value))]

\* obj.key of a class without __getattr__: a name the instance does not have
\* is an AttributeError.
Object_getattr_strict(self, key) ==
    IF key \in DOMAIN self THEN Got(self[key]) ELSE [err |-> "AttributeError", ret |-> NoneV]

\* obj.key: the attribute when the instance has it, else
\* def __getattr__(self, key): return self.extra[key]
Object_getattr(self, key) ==
    IF key \in DOMAIN self THEN Got(self[key]) ELSE Object_getitem(self, attr_key(key))

\* __setattr__ treating every name as it treats a declared field.
Object_setattr_plain(self, key, value) ==
    IF key \in DOMAIN self THEN [self EXCEPT ![key] = value]
    ELSE [k \in DOMAIN self \cup {key} |-> IF k = key THEN value ELSE self[k]]

\* def __setattr__(self, key, value), on an initialized instance:
\*     if not self._initialized or key in self.__dict__:
\*         super().__setattr__(key, value)
\*     else: self.extra[key] = value
Object_setattr(self, key, value) ==
    IF key \in DOMAIN self THEN [self EXCEPT ![key] = value]
    ELSE Object_setitem(self, attr_key(key), value)

Blob_getitem(self, key) ==
    IF dict_has(self.extra.items, key) THEN Got(dict_get(self.extra.items, key))
    ELSE [err |-> "KeyError", ret |-> NoneV]

Blob_setitem(self, key, value) ==
    [self EXCEPT !.extra = DictV(dict_set(@.items, key, value))]

Blob_getattr(self, key) ==
    IF key \in DOMAIN self THEN Got(self[key]) ELSE Blob_getitem(self, attr_key(key))

Blob_setattr(self, key, value) ==
    IF key \in DOMAIN self THEN [self EXCEPT ![key] = value]
    ELSE Blob_setitem(self, attr_key(key), value)

Raise(s, e) == [s |-> s, err |-> e, ret |-> {}]

\* A committed write: the clock reads later afterwards.
tick(s) == [s EXCEPT !.now = s.now + 1]

\* The name of a new object taken from the hex form of its uuid.
default_name_hex(name, new_uuid) == IF name = None THEN hex(new_uuid) ELSE name

\* if name is None: name = str(new_uuid)
default_name(name, new_uuid) == IF name = None THEN str(new_uuid) ELSE name

SQLAdapter_insert_object(s, namespace, name, type_, subtype, username, extra_data, return_result) ==
    LET new_uuid == uuid4(s.nuuid + 1)
        new_obj == [uuid |-> new_uuid,
                    namespace |-> namespace,
                    name |-> default_name(name, new_uuid),
                    type_ |-> type_,
                    subtype |-> subtype,
                    creation_time |-> s.now,
                    modification_time |-> NoTime,
                    hidden |-> FALSE,
                    username |-> username,
                    extra_data |-> extra_data]
        \* after the session `c` of the insert, the new row is read back as `got`
        committed(c) ==
            LET returned(got) ==
                    IF ~return_result THEN [s |-> tick(c.s), err |-> Ok, ret |-> {}]
                    ELSE IF got.err # Ok THEN [s |-> tick(c.s), err |-> got.err, ret |-> {}]
                    ELSE [s |-> tick(c.s), err |-> Ok,
                          ret |-> {Object_to_public(o) : o \in got.rows}]
            IN IF c.err # Ok THEN Raise(c.s, translate(c.err))
               ELSE returned(SQLAdapter_get_object(c.s,
                                [get_object_args EXCEPT !.uuid = new_uuid,
                                                        !.assert_exists = TRUE,
                                                        !.filter_namespace = FALSE]))
    IN committed(session_scope(s, [s EXCEPT !.objects = s.objects \cup {new_obj},
                                            !.nuuid = s.nuuid + 1]))

object_update_keywords ==
    {"new_name", "hidden", "username", "extra_data", "type_", "subtype", "namespace"}

RECURSIVE dict_update(_, _)
dict_update(items, others) ==
    IF others = <<>> THEN items
    ELSE dict_update(dict_set(items, others[1], others[2]),
                     SubSeq(others, 3, Len(others)))

SQLAdapter_update_object_merging(s, object_identifier, update_kwargs, namespace) ==
    LET has(k) == k \in DOMAIN update_kwargs
        upd(cur_obj) ==
            [cur_obj EXCEPT
                !.name = IF has("new_name") THEN update_kwargs.new_name ELSE @,
                !.hidden = IF has("hidden") THEN update_kwargs.hidden ELSE @,
                !.username = IF has("username") THEN update_kwargs.username ELSE @,
                !.extra_data = IF has("extra_data")
                               THEN pack_extra(DictV(dict_update(unpack_extra(@).items,
                                        unpack_extra(update_kwargs.extra_data).items))).bytes
                               ELSE @,
                !.type_ = IF has("type_") THEN update_kwargs.type_ ELSE @,
                !.subtype = IF has("subtype") THEN update_kwargs.subtype ELSE @,
                !.namespace = IF has("namespace") THEN update_kwargs.namespace ELSE @,
                !.modification_time = s.now]
        committed(c) ==
            IF c.err # Ok THEN Raise(c.s, translate(c.err))
            ELSE [s |-> tick(c.s), err |-> Ok, ret |-> {}]
        update(cur) ==
            IF cur.err # Ok THEN Raise(s, cur.err)
            ELSE IF ~(DOMAIN update_kwargs \subseteq object_update_keywords)
                 THEN Raise(s, "ValueError")
            ELSE committed(session_scope(s, [s EXCEPT !.objects =
                                (s.objects \ cur.rows) \cup {upd(o) : o \in cur.rows}]))
    IN update(SQLAdapter_get_object_from_identifier(s, object_identifier,
                    namespace # None, namespace, TRUE, TRUE))

SQLAdapter_update_object(s, object_identifier, update_kwargs, namespace) ==
    LET has(k) == k \in DOMAIN update_kwargs
        upd(cur_obj) ==
            [cur_obj EXCEPT
                !.name = IF has("new_name") THEN update_kwargs.new_name ELSE @,
                !.hidden = IF has("hidden") THEN update_kwargs.hidden ELSE @,
                !.username = IF has("username") THEN update_kwargs.username ELSE @,
                !.extra_data = IF has("extra_data") THEN update_kwargs.extra_data ELSE @,
                !.type_ = IF has("type_") THEN update_kwargs.type_ ELSE @,
                !.subtype = IF has("subtype") THEN update_kwargs.subtype ELSE @,
                !.namespace = IF has("namespace") THEN update_kwargs.namespace ELSE @,
                !.modification_time = s.now]
        committed(c) ==
            IF c.err # Ok THEN Raise(c.s, translate(c.err))
            ELSE [s |-> tick(c.s), err |-> Ok, ret |-> {}]
        update(cur) ==
            IF cur.err # Ok THEN Raise(s, cur.err)
            ELSE IF ~(DOMAIN update_kwargs \subseteq object_update_keywords)
                 THEN Raise(s, "ValueError")
            ELSE committed(session_scope(s, [s EXCEPT !.objects =
                                (s.objects \ cur.rows) \cup {upd(o) : o \in cur.rows}]))
    IN update(SQLAdapter_get_object_from_identifier(s, object_identifier,
                    namespace # None, namespace, TRUE, TRUE))

delete_check_skipped(s, obj) == Ok

\* The hard delete's dependency checks on one object.  They run in sessions of
\* their own, so they read the committed state.
delete_check(s, obj) ==
    LET \* in_message: the f-string of the error message calls get_blobs a second
        \* time
        check(with_hidden, in_message, as_first, as_second) ==
            IF with_hidden.err # Ok THEN with_hidden.err
            ELSE IF Cardinality(with_hidden.rows) # 0
                 THEN (IF in_message.err # Ok THEN in_message.err ELSE "DeletionError")
            ELSE IF as_first.err # Ok THEN as_first.err
            ELSE IF Cardinality(as_first.rows) # 0 THEN "DeletionError"
            ELSE IF as_second.err # Ok THEN as_second.err
            ELSE IF Cardinality(as_second.rows) # 0 THEN "DeletionError"
            ELSE Ok
    IN check(SQLAdapter_get_blobs(s,
                [get_blobs_args EXCEPT !.object_identifier = ByUuid(obj.uuid),
                                       !.include_hidden = TRUE]),
             SQLAdapter_get_blobs(s,
                [get_blobs_args EXCEPT !.object_identifier = ByUuid(obj.uuid)]),
             SQLAdapter_get_relationships(s,
                [get_relationships_args EXCEPT !.first = ByUuid(obj.uuid),
                                               !.include_hidden = TRUE]),
             SQLAdapter_get_relationships(s,
                [get_relationships_args EXCEPT !.second = ByUuid(obj.uuid),
                                               !.include_hidden = TRUE]))

\* The exception of the first element of the list that raises one, else Ok.
RECURSIVE first_error(_)
first_error(errs) ==
    IF errs = <<>> THEN Ok
    ELSE IF Head(errs) # Ok THEN Head(errs)
    ELSE first_error(Tail(errs))

SQLAdapter_delete_objects(s, uuids, hide_only, check_namespace, namespace_to_check) ==
    LET hide(obj) == [obj EXCEPT !.hidden = TRUE, !.modification_time = s.now]
        committed(c) ==
            IF c.err # Ok THEN Raise(c.s, c.err)
            ELSE [s |-> IF c.s = s THEN s ELSE tick(c.s), err |-> Ok, ret |-> {}]
        delete(objs) ==
            LET order == AsList(objs.rows)
                checked(failed) ==
                    IF ~hide_only /\ failed # Ok THEN Raise(s, failed)
                    ELSE committed(session_scope(s,
                            [s EXCEPT !.objects =
                                IF hide_only
                                THEN (s.objects \ objs.rows) \cup {hide(o) : o \in objs.rows}
                                ELSE s.objects \ objs.rows]))
            IN IF objs.err # Ok THEN Raise(s, objs.err)
               ELSE IF Cardinality(objs.rows) # Len(uuids) THEN Raise(s, "AssertionError")
               ELSE checked(first_error([i \in 1..Len(order) |-> delete_check(s, order[i])]))
    IN delete(SQLAdapter_get_object(s,
                [get_object_args EXCEPT !.uuids = List(uuids),
                                        !.include_hidden = TRUE,
                                        !.filter_namespace = check_namespace,
                                        !.namespace = namespace_to_check]))

with_blob_stamped(s, obj, name, type_, username, extra_data, serialization, size) ==
    LET new_blob(o) == [uuid |-> uuid4(s.nuuid + 1),
                        parent |-> o.uuid,
                        name |-> name,
                        type_ |-> type_,
                        size |-> size,
                        creation_time |-> s.now,
                        modification_time |-> s.now,
                        hidden |-> FALSE,
                        username |-> username,
                        serialization |-> serialization,
                        extra_data |-> extra_data]
    IN [s EXCEPT !.blobs = s.blobs \cup {new_blob(o) : o \in obj},
                 !.nuuid = s.nuuid + 1]

with_blob_touching(s, obj, name, type_, username, extra_data, serialization, size) ==
    LET new_blob(o) == [uuid |-> uuid4(s.nuuid + 1),
                        parent |-> o.uuid,
                        name |-> name,
                        type_ |-> type_,
                        size |-> size,
                        creation_time |-> s.now,
                        modification_time |-> NoTime,
                        hidden |-> FALSE,
                        username |-> username,
                        serialization |-> serialization,
                        extra_data |-> extra_data]
    IN [s EXCEPT !.blobs = s.blobs \cup {new_blob(o) : o \in obj},
                 !.objects = {IF o \in obj THEN [o EXCEPT !.modification_time = s.now]
                              ELSE o : o \in s.objects},
                 !.nuuid = s.nuuid + 1]

\* new_blob = Blob(uuid=new_uuid, parent=obj.uuid, ...); session.add(new_blob):
\* the rows as the session holds them before its commit.  obj is the set of
\* the row the session has read.
with_blob(s, obj, name, type_, username, extra_data, serialization, size) ==
    LET new_blob(o) == [uuid |-> uuid4(s.nuuid + 1),
                        parent |-> o.uuid,
                        name |-> name,
                        type_ |-> type_,
                        size |-> size,
                        creation_time |-> s.now,
                        modification_time |-> NoTime,
                        hidden |-> FALSE,
                        username |-> username,
                        serialization |-> serialization,
                        extra_data |-> extra_data]
    IN [s EXCEPT !.blobs = s.blobs \cup {new_blob(o) : o \in obj},
                 !.nuuid = s.nuuid + 1]

\* session.add(new_blob), and the commit at the end of the with block.
add_blob(s, obj, name, type_, username, extra_data, serialization, size) ==
    session_scope(s, with_blob(s, obj, name, type_, username, extra_data,
                               serialization, size))

SQLAdapter_insert_blob(s, object_identifier, name, type_, username, extra_data, serialization, size, return_result, check_namespace, namespace_to_check) ==
    LET new_uuid == uuid4(s.nuuid + 1)
        \* after the session `c` of the insert, the new row is read back as `got`
        committed(c) ==
            LET returned(got) ==
                    IF ~return_result THEN [s |-> tick(c.s), err |-> Ok, ret |-> {}]
                    ELSE IF got.err # Ok THEN [s |-> tick(c.s), err |-> got.err, ret |-> {}]
                    ELSE [s |-> tick(c.s), err |-> Ok,
                          ret |-> {Blob_to_public(b) : b \in got.rows}]
            IN IF c.err # Ok THEN Raise(c.s, translate(c.err))
               ELSE returned(SQLAdapter_get_blobs(c.s,
                                [get_blobs_args EXCEPT !.uuid = new_uuid,
                                                       !.assert_exists = TRUE,
                                                       !.check_namespace = FALSE]))
        insert(obj) ==
            IF obj.err # Ok THEN Raise(s, obj.err)
            ELSE IF obj.rows = {} THEN Raise(s, "AssertionError")
            ELSE committed(add_blob(s, obj.rows, name, type_, username, extra_data,
                                    serialization, size))
    IN insert(SQLAdapter_get_object_from_identifier(s, object_identifier,
                    check_namespace, namespace_to_check, FALSE, FALSE))

blob_update_keywords ==
    {"new_name", "hidden", "serialization", "size", "username", "extra_data", "type_"}

SQLAdapter_update_blob(s, object_identifier, name, uuid, update_kwargs, check_namespace, namespace_to_check) ==
    LET has(k) == k \in DOMAIN update_kwargs
        upd(cur_blob) ==
            [cur_blob EXCEPT
                !.name = IF has("new_name") THEN update_kwargs.new_name ELSE @,
                !.hidden = IF has("hidden") THEN update_kwargs.hidden ELSE @,
                !.serialization = IF has("serialization")
                                  THEN update_kwargs.serialization ELSE @,
                !.size = IF has("size") THEN update_kwargs.size ELSE @,
                !.username = IF has("username") THEN update_kwargs.username ELSE @,
                !.extra_data = IF has("extra_data") THEN update_kwargs.extra_data ELSE @,
                !.type_ = IF has("type_") THEN update_kwargs.type_ ELSE @,
                !.modification_time = s.now]
        update(cur) ==
            LET committed(c) ==
                    IF c.err # Ok THEN Raise(c.s, translate(c.err))
                    ELSE [s |-> tick(c.s), err |-> Ok, ret |-> {b.uuid : b \in cur.rows}]
            IN IF cur.err # Ok THEN Raise(s, cur.err)
               ELSE IF ~(DOMAIN update_kwargs \subseteq blob_update_keywords)
                    THEN Raise(s, "ValueError")
               ELSE committed(session_scope(s, [s EXCEPT !.blobs =
                                (s.blobs \ cur.rows) \cup {upd(b) : b \in cur.rows}]))
    IN update(SQLAdapter_get_blobs(s,
                [get_blobs_args EXCEPT !.object_identifier = object_identifier,
                                       !.name = name,
                                       !.match_name = TRUE,
                                       !.uuid = uuid,
                                       !.include_hidden = TRUE,
                                       !.check_namespace = check_namespace,
                                       !.namespace_to_check = namespace_to_check,
                                       !.assert_exists = TRUE]))

SQLAdapter_delete_blobs_found(s, uuids, hide_only, check_namespace, namespace_to_check) ==
    LET hide(blob) == [blob EXCEPT !.hidden = TRUE, !.modification_time = s.now]
        committed(c) ==
            IF c.err # Ok THEN Raise(c.s, c.err)
            ELSE [s |-> IF c.s = s THEN s ELSE tick(c.s), err |-> Ok, ret |-> {}]
        delete(found) ==
            IF found.err # Ok THEN Raise(s, found.err)
            ELSE committed(session_scope(s,
                    [s EXCEPT !.blobs =
                        IF hide_only
                        THEN (s.blobs \ found.rows) \cup {hide(b) : b \in found.rows}
                        ELSE s.blobs \ found.rows]))
    IN delete(SQLAdapter_get_blobs(s,
                [get_blobs_args EXCEPT !.uuids = List(uuids),
                                       !.include_hidden = TRUE,
                                       !.check_namespace = check_namespace,
                                       !.namespace_to_check = namespace_to_check]))

SQLAdapter_delete_blobs(s, uuids, hide_only, check_namespace, namespace_to_check) ==
    LET hide(blob) == [blob EXCEPT !.hidden = TRUE, !.modification_time = s.now]
        committed(c) ==
            IF c.err # Ok THEN Raise(c.s, c.err)
            ELSE [s |-> IF c.s = s THEN s ELSE tick(c.s), err |-> Ok, ret |-> {}]
        delete(found) ==
            IF found.err # Ok THEN Raise(s, found.err)
            ELSE IF Cardinality(found.rows) # Len(uuids) THEN Raise(s, "AssertionError")
            ELSE committed(session_scope(s,
                    [s EXCEPT !.blobs =
                        IF hide_only
                        THEN (s.blobs \ found.rows) \cup {hide(b) : b \in found.rows}
                        ELSE s.blobs \ found.rows]))
    IN delete(SQLAdapter_get_blobs(s,
                [get_blobs_args EXCEPT !.uuids = List(uuids),
                                       !.include_hidden = TRUE,
                                       !.check_namespace = check_namespace,
                                       !.namespace_to_check = namespace_to_check]))

\* new_rel = Relationship(uuid=new_uuid, first=first.uuid, second=second.uuid,
\* ...); session.add(new_rel), and the commit at the end of the with block.
\* first and second are the sets of the row the session has read for each.
add_relationship(s, first, second, type_) ==
    LET new_rel(f, g) == [uuid |-> uuid4(s.nuuid + 1),
                          first |-> f.uuid,
                          second |-> g.uuid,
                          type_ |-> type_,
                          hidden |-> FALSE]
    IN session_scope(s, [s EXCEPT !.relationships = s.relationships \cup
                                    {new_rel(f, g) : f \in first, g \in second},
                                  !.nuuid = s.nuuid + 1])

SQLAdapter_insert_relationship(s, first, second, type_, return_result, check_namespace, namespace_to_check) ==
    LET new_uuid == uuid4(s.nuuid + 1)
        \* after the session `c` of the insert, the new row is read back as `got`
        committed(c) ==
            LET returned(got) ==
                    IF ~return_result THEN [s |-> tick(c.s), err |-> Ok, ret |-> {}]
                    ELSE IF got.err # Ok THEN [s |-> tick(c.s), err |-> got.err, ret |-> {}]
                    ELSE [s |-> tick(c.s), err |-> Ok,
                          ret |-> {Relationship_to_public(r) : r \in got.rows}]
            IN IF c.err # Ok THEN Raise(c.s, translate(c.err))
               ELSE returned(SQLAdapter_get_relationships(c.s,
                                [get_relationships_args EXCEPT !.uuid = new_uuid,
                                                               !.assert_exists = TRUE,
                                                               !.filter_namespace = FALSE]))
        insert(first_obj, second_obj) ==
            IF first_obj.err # Ok THEN Raise(s, first_obj.err)
            ELSE IF first_obj.rows = {} THEN Raise(s, "AssertionError")
            ELSE IF second_obj.err # Ok THEN Raise(s, second_obj.err)
            ELSE IF second_obj.rows = {} THEN Raise(s, "AssertionError")
            ELSE committed(add_relationship(s, first_obj.rows, second_obj.rows, type_))
    IN insert(SQLAdapter_get_object_from_identifier(s, first, check_namespace,
                    namespace_to_check, FALSE, FALSE),
              SQLAdapter_get_object_from_identifier(s, second, check_namespace,
                    namespace_to_check, FALSE, FALSE))

\* An optional boolean argument: None, or the boolean.
NoBool == <<>>

Bool(b) == <<b>>

SQLAdapter_update_relationship_of_all(s, first, second, type_, uuid, new_type, hidden, check_namespace, namespace_to_check) ==
    LET upd(rel) == [rel EXCEPT !.type_ = IF new_type # None THEN new_type ELSE @,
                                !.hidden = IF hidden # NoBool THEN hidden[1] ELSE @]
        committed(c) ==
            IF c.err # Ok THEN Raise(c.s, translate(c.err))
            ELSE [s |-> IF c.s = s THEN s ELSE tick(c.s), err |-> Ok, ret |-> {}]
        update(found) ==
            IF found.err # Ok THEN Raise(s, found.err)
            ELSE committed(session_scope(s, [s EXCEPT !.relationships =
                                (s.relationships \ found.rows)
                                    \cup {upd(r) : r \in found.rows}]))
    IN update(SQLAdapter_get_relationships(s,
                [get_relationships_args EXCEPT !.first = first,
                                               !.second = second,
                                               !.type_ = TypeArg(type_),
                                               !.uuid = uuid,
                                               !.filter_namespace = check_namespace,
                                               !.namespace = namespace_to_check,
                                               !.include_hidden = TRUE,
                                               !.assert_exists = TRUE]))

SQLAdapter_update_relationship(s, first, second, type_, uuid, new_type, hidden, check_namespace, namespace_to_check) ==
    LET upd(rel) == [rel EXCEPT !.type_ = IF new_type # None THEN new_type ELSE @,
                                !.hidden = IF hidden # NoBool THEN hidden[1] ELSE @]
        committed(c) ==
            IF c.err # Ok THEN Raise(c.s, translate(c.err))
            ELSE [s |-> IF c.s = s THEN s ELSE tick(c.s), err |-> Ok, ret |-> {}]
        update(found) ==
            IF found.err # Ok THEN Raise(s, found.err)
            ELSE IF ~found.single /\ Cardinality(found.rows) # 1
                 THEN Raise(s, "AssertionError")
            ELSE committed(session_scope(s, [s EXCEPT !.relationships =
                                (s.relationships \ found.rows)
                                    \cup {upd(r) : r \in found.rows}]))
    IN update(SQLAdapter_get_relationships(s,
                [get_relationships_args EXCEPT !.first = first,
                                               !.second = second,
                                               !.type_ = TypeArg(type_),
                                               !.uuid = uuid,
                                               !.filter_namespace = check_namespace,
                                               !.namespace = namespace_to_check,
                                               !.include_hidden = TRUE,
                                               !.assert_exists = TRUE]))

SQLAdapter_delete_relationships(s, uuids, hide_only, check_namespace, namespace_to_check) ==
    LET hide(rel) == [rel EXCEPT !.hidden = TRUE]
        committed(c) ==
            IF c.err # Ok THEN Raise(c.s, c.err)
            ELSE [s |-> IF c.s = s THEN s ELSE tick(c.s), err |-> Ok, ret |-> {}]
        delete(rels) ==
            IF rels.err # Ok THEN Raise(s, rels.err)
            ELSE IF Cardinality(rels.rows) # Len(uuids) THEN Raise(s, "AssertionError")
            ELSE committed(session_scope(s,
                    [s EXCEPT !.relationships =
                        IF hide_only
                        THEN (s.relationships \ rels.rows) \cup {hide(r) : r \in rels.rows}
                        ELSE s.relationships \ rels.rows]))
    IN delete(SQLAdapter_get_relationships(s,
                [get_relationships_args EXCEPT !.uuids = List(uuids),
                                               !.include_hidden = TRUE,
                                               !.filter_namespace = check_namespace,
                                               !.namespace = namespace_to_check]))

(***************************************************************************)
(* BasicDB: the facade.  `self` is the store as constructed: [namespace,   *)
(* username, stash_blob_prefix, max_extra_fields_size, allow_hard_delete,  *)
(* serialization].                                                         *)
(***************************************************************************)

\* max_extra_fields_size = None, or a number of bytes.
NoSize == <<>>

Size(n) == <<n>>

\* The default of max_extra_fields_size.
DefaultMaxExtraFieldsSize == 1024

BasicDB(namespace, allow_hard_delete) ==
    [namespace |-> namespace,
     username |-> "user@host",
     stash_blob_prefix |-> "basicdb_stash",
     max_extra_fields_size |-> Size(DefaultMaxExtraFieldsSize),
     allow_hard_delete |-> allow_hard_delete,
     serialization |-> "pickle"]

\* An entity instance given where an identifier is expected: an Object
\* (kind "instance"), a Blob (kind "blob") or a Relationship (kind "relationship").
Instance(x) == [kind |-> "instance", inst |-> x]

\* uuid_if_object, uuid_if_blob, uuid_if_relationship
uuid_if_object(x) == IF x.kind = "instance" THEN ByUuid(x.inst.uuid) ELSE x

\* The ceiling as a strict bound.
extra_fits_below(self, extra_data) ==
    self.max_extra_fields_size # NoSize => Len(extra_data) < self.max_extra_fields_size[1]

\* assert len(extra_data) <= self.max_extra_fields_size
extra_fits(self, extra_data) ==
    self.max_extra_fields_size # NoSize => Len(extra_data) <= self.max_extra_fields_size[1]

\* The facade without its comparison of namespaces.
namespace_conflict_ignored(self, namespace) == FALSE

\* if self.namespace is not None and namespace != self.namespace: raise NamespaceError
namespace_conflict(self, namespace) ==
    self.namespace # None /\ namespace # self.namespace

\* The facade without its assert on allow_hard_delete.
hard_delete_unchecked(self, hide_only) == TRUE

\* if not hide_only: assert self.allow_hard_delete
hard_delete_allowed(self, hide_only) == hide_only \/ self.allow_hard_delete

stash_put(s, key, data) == [s EXCEPT !.stash = (key :> data) @@ s.stash]

stash_delete(s, key) ==
    [s EXCEPT !.stash = [k \in DOMAIN s.stash \ {key} |-> s.stash[k]]]

BasicDB_insert_blob(self, s, object_or_uuid, name, type_, username, extra, data) ==
    LET object_identifier == uuid_if_object(object_or_uuid)
        bytes == IF ~isinstance_bytes(data) THEN serialize(data) ELSE data.bytes
        serialization == IF ~isinstance_bytes(data) THEN self.serialization ELSE None
        size == Len(bytes)
        \* self.stash.put(self.get_blob_key(new_blob.uuid), data)
        stashed(new_blob) ==
            IF new_blob.err # Ok THEN new_blob
            ELSE [s |-> LET b == CHOOSE b \in new_blob.ret : TRUE
                        IN stash_put(new_blob.s, get_blob_key(self, b.uuid), bytes),
                  err |-> Ok,
                  ret |-> new_blob.ret]
        insert(extra_data) ==
            IF extra_data.err # Ok THEN Raise(s, extra_data.err)
            ELSE IF ~extra_fits(self, extra_data.bytes) THEN Raise(s, "AssertionError")
            ELSE stashed(SQLAdapter_insert_blob(s, object_identifier, name, type_,
                            IF username = None THEN self.username ELSE username,
                            extra_data.bytes, serialization, size, TRUE,
                            self.namespace # None, self.namespace))
    IN IF ~isinstance_bytes(data) /\ ~picklable(data) THEN Raise(s, "TypeError")
       ELSE IF ~isinstance_dict(extra) THEN Raise(s, "AssertionError")
       ELSE insert(pack_extra(extra))

\* The loop over blobs.items() inserting none of them.
insert_blobs_skipped(self, s, new_obj_uuid, items) == [s |-> s, err |-> Ok, ret |-> {}]

\* for blob_name, blob_data in blobs.items(): self.insert_blob(...)
RECURSIVE insert_blobs(_, _, _, _)
insert_blobs(self, s, new_obj_uuid, items) ==
    LET rest(r) == IF r.err # Ok THEN r
                   ELSE insert_blobs(self, r.s, new_obj_uuid, Tail(items))
    IN IF items = <<>> THEN [s |-> s, err |-> Ok, ret |-> {}]
       ELSE rest(BasicDB_insert_blob(self, s, ByUuid(new_obj_uuid), Head(items).name,
                                     None, None, EmptyExtra, Head(items).data))

BasicDB_insert(self, s, namespace, name, type_, subtype, username, extra, blob, blobs_, return_result) ==
    LET also_insert_blobs == blob # NoData \/ blobs_.some
        ns == IF namespace = None THEN self.namespace ELSE namespace
        items == IF ~blobs_.some THEN <<[name |-> None, data |-> blob]>> ELSE blobs_.v
        with_blobs(new_obj) ==
            LET returned(inserted) ==
                    IF inserted.err # Ok THEN inserted
                    ELSE [s |-> inserted.s, err |-> Ok,
                          ret |-> IF return_result THEN new_obj.ret ELSE {}]
            IN IF ~also_insert_blobs \/ new_obj.err # Ok THEN new_obj
               ELSE returned(insert_blobs(self, new_obj.s,
                                (CHOOSE o \in new_obj.ret : TRUE).uuid, items))
        insert(extra_data) ==
            IF blob # NoData /\ blobs_.some THEN Raise(s, "AssertionError")
            ELSE IF namespace # None /\ namespace_conflict(self, namespace)
                 THEN Raise(s, "NamespaceError")
            ELSE IF ~isinstance_dict(extra) THEN Raise(s, "AssertionError")
            ELSE IF extra_data.err # Ok THEN Raise(s, extra_data.err)
            ELSE IF ~extra_fits(self, extra_data.bytes) THEN Raise(s, "AssertionError")
            ELSE with_blobs(SQLAdapter_insert_object(s, ns, name, type_, subtype,
                                IF username = None THEN self.username ELSE username,
                                extra_data.bytes,
                                IF also_insert_blobs THEN TRUE ELSE return_result))
    IN insert(pack_extra(extra))

\* The keyword arguments of BasicDB.get, at their defaults.
get_args ==
    [object_ |-> NoIdent, uuid |-> None, uuids |-> NoList, namespace |-> None,
     name |-> None, names |-> NoList, type_ |-> None, subtype |-> None,
     include_hidden |-> FALSE, rel_first |-> NoIdent, rel_second |-> NoIdent,
     rel_type |-> None, assert_exists |-> FALSE]

\* get filtering by the namespace argument alone, whatever the store's own.
BasicDB_get_unscoped(self, s, q) ==
    SQLAdapter_get_object(s,
        [get_object_args EXCEPT
            !.uuid = IF q.object_.kind # "none" THEN q.object_.inst.uuid ELSE q.uuid,
            !.uuids = q.uuids, !.namespace = q.namespace, !.name = q.name,
            !.names = q.names, !.type_ = q.type_, !.subtype = q.subtype,
            !.include_hidden = q.include_hidden])

BasicDB_get(self, s, q) ==
    LET namespace == IF q.namespace = None THEN self.namespace ELSE q.namespace
        uuid == IF q.object_.kind # "none" THEN q.object_.inst.uuid ELSE q.uuid
    IN IF \/ q.namespace # None /\ ~(self.namespace = None \/ q.namespace = self.namespace)
          \/ q.object_.kind # "none" /\ q.uuid # None
          \/ uuid # None /\ (q.uuids.some \/ q.name # None)
          \/ q.name # None /\ q.names.some
          \/ q.subtype # None /\ q.type_ = None
       THEN ReadError("AssertionError")
       ELSE SQLAdapter_get_object(s,
                [get_object_args EXCEPT
                    !.uuid = uuid,
                    !.uuids = q.uuids,
                    !.namespace = namespace,
                    !.name = q.name,
                    !.names = q.names,
                    !.type_ = q.type_,
                    !.subtype = q.subtype,
                    !.include_hidden = q.include_hidden,
                    !.relationship_first = uuid_if_object(q.rel_first),
                    !.relationship_second = uuid_if_object(q.rel_second),
                    !.relationship_type = q.rel_type,
                    !.assert_exists = q.assert_exists])

update_whitelist_but_hidden ==
    {"new_name", "type_", "subtype", "namespace", "username", "extra"}

update_whitelist ==
    {"new_name", "type_", "subtype", "namespace", "hidden", "username", "extra"}

BasicDB_update(self, s, object_identifier, kwargs) ==
    LET is_object == object_identifier.kind = "instance"
        inst == object_identifier.inst
        keys == IF is_object THEN update_whitelist ELSE DOMAIN kwargs
        \* the keyword arguments, defaulted from the instance
        arg(k) == IF k \in DOMAIN kwargs THEN kwargs[k]
                  ELSE IF k = "new_name" THEN inst.name
                  ELSE IF k = "type_" THEN inst.type_
                  ELSE IF k = "subtype" THEN inst.subtype
                  ELSE IF k = "namespace" THEN inst.namespace
                  ELSE IF k = "hidden" THEN inst.hidden
                  ELSE IF k = "username" THEN inst.username
                  ELSE inst.extra
        update(extra_data) ==
            LET update_kwargs == [k \in (keys \ {"extra"}) \cup
                                    (IF "extra" \in keys THEN {"extra_data"} ELSE {}) |->
                                    IF k = "extra_data" THEN extra_data.bytes ELSE arg(k)]
            IN IF "extra" \in keys /\ ~isinstance_dict(arg("extra"))
               THEN Raise(s, "AssertionError")
               ELSE IF "extra" \in keys /\ extra_data.err # Ok
                    THEN Raise(s, extra_data.err)
               ELSE IF "extra" \in keys /\ ~extra_fits(self, extra_data.bytes)
                    THEN Raise(s, "AssertionError")
               ELSE SQLAdapter_update_object(s, uuid_if_object(object_identifier),
                                             update_kwargs, self.namespace)
    IN IF ~(DOMAIN kwargs \subseteq update_whitelist) THEN Raise(s, "AssertionError")
       ELSE IF "namespace" \in keys /\ namespace_conflict(self, arg("namespace"))
            THEN Raise(s, "NamespaceError")
       ELSE update(pack_extra(arg("extra")))

\* uuid_list: the uuid of every element of to_delete (a list or one element).
RECURSIVE uuid_list(_)
uuid_list(to_delete) ==
    IF to_delete = <<>> THEN <<>>
    ELSE <<IF Head(to_delete).kind \in {"instance", "blob", "relationship"}
           THEN Head(to_delete).inst.uuid
           ELSE Head(to_delete).v>> \o uuid_list(Tail(to_delete))

BasicDB_delete(self, s, to_delete, hide_only) ==
    IF ~hard_delete_allowed(self, hide_only) THEN Raise(s, "AssertionError")
    ELSE SQLAdapter_delete_objects(s, uuid_list(to_delete), hide_only,
                                   self.namespace # None, self.namespace)

BasicDB_exists_hidden_too(self, s, uuid_or_object) ==
    LET found(r) == [err |-> r.err, ret |-> r.err = Ok /\ r.rows # {}]
    IN found(BasicDB_get(self, s,
                [get_args EXCEPT !.uuid = uuid_if_object(uuid_or_object).v,
                                 !.include_hidden = TRUE]))

BasicDB_exists(self, s, uuid_or_object) ==
    LET found(r) == [err |-> r.err, ret |-> r.err = Ok /\ r.rows # {}]
    IN found(BasicDB_get(self, s,
                [get_args EXCEPT !.uuid = uuid_if_object(uuid_or_object).v]))

LoadError(e) == [err |-> e, ret |-> NoData]

\* get_blobs of one object never asking for what is hidden.
BasicDB_get_blobs_visible(self, s, obj_identifier, return_by, include_hidden) ==
    LET result(tmp_res) ==
            [err |-> tmp_res.err, ret |-> {Blob_to_public(x) : x \in tmp_res.rows}]
    IN result(SQLAdapter_get_blobs(s,
                [get_blobs_args EXCEPT !.object_identifier = uuid_if_object(obj_identifier)]))

\* obj_identifier is one object identifier or a list of them (List(...)).  The
\* blobs of one object are returned as a dict by name or by uuid, or as a list
\* (here the set of its elements); for a list of objects, as a dict of these
\* by the uuid of the parent.
BasicDB_get_blobs(self, s, obj_identifier, return_by, include_hidden) ==
    LET isinstance_list == "some" \in DOMAIN obj_identifier
        by(rows) ==
            IF return_by = "name"
            THEN [n \in {x.name : x \in rows} |->
                    Blob_to_public(CHOOSE x \in rows : x.name = n)]
            ELSE IF return_by = "uuid"
            THEN [u \in {x.uuid : x \in rows} |->
                    Blob_to_public(CHOOSE x \in rows : x.uuid = u)]
            ELSE {Blob_to_public(x) : x \in rows}
        result(tmp_res) ==
            IF tmp_res.err # Ok THEN [err |-> tmp_res.err, ret |-> <<>>]
            ELSE IF return_by \notin {"name", "uuid", None}
                 THEN [err |-> "ValueError", ret |-> <<>>]
            ELSE IF isinstance_list
                 THEN [err |-> Ok,
                       ret |-> [k \in {x.parent : x \in tmp_res.rows} |->
                                    by({x \in tmp_res.rows : x.parent = k})]]
            ELSE [err |-> Ok, ret |-> by(tmp_res.rows)]
    IN IF isinstance_list
       THEN (IF \E i \in 1..Len(obj_identifier.v) :
                    obj_identifier.v[i].kind \notin {"instance", "uuid"}
             THEN [err |-> "AssertionError", ret |-> <<>>]
             ELSE result(SQLAdapter_get_blobs(s,
                    [get_blobs_args EXCEPT
                        !.object_list = List(uuid_list(obj_identifier.v)),
                        !.include_hidden = include_hidden,
                        !.check_namespace = self.namespace # None,
                        !.namespace_to_check = self.namespace])))
       ELSE result(SQLAdapter_get_blobs(s,
                [get_blobs_args EXCEPT
                    !.object_identifier = uuid_if_object(obj_identifier),
                    !.include_hidden = include_hidden,
                    !.check_namespace = self.namespace # None,
                    !.namespace_to_check = self.namespace]))

\* object_identifier_or_blob is None, an object identifier or a Blob instance
\* (kind "blob").
BasicDB_load_blob(self, s, object_identifier_or_blob, name, uuid) ==
    LET is_blob == object_identifier_or_blob.kind = "blob"
        uuid_ == IF is_blob THEN object_identifier_or_blob.inst.uuid ELSE uuid
        object_identifier == IF is_blob THEN NoIdent
                             ELSE uuid_if_object(object_identifier_or_blob)
        load(found) ==
            LET cur_blob == CHOOSE b \in found.rows : TRUE
                key == get_blob_key(self, cur_blob.uuid)
            IN IF uuid_ = None /\ object_identifier.kind = "none"
               THEN LoadError("AssertionError")
               ELSE IF uuid_ # None /\ (object_identifier.kind # "none" \/ name # None)
                    THEN LoadError("AssertionError")
               ELSE IF found.err # Ok THEN LoadError(found.err)
               ELSE IF key \notin DOMAIN s.stash THEN LoadError("StashError")
               ELSE deserialize(s.stash[key], cur_blob.serialization)
    IN load(IF uuid_ = None
            THEN SQLAdapter_get_blobs(s,
                    [get_blobs_args EXCEPT
                        !.object_identifier = object_identifier,
                        !.match_name = TRUE,
                        !.name = name,
                        !.check_namespace = self.namespace # None,
                        !.namespace_to_check = self.namespace,
                        !.include_hidden = FALSE,
                        !.assert_exists = TRUE])
            ELSE IF is_blob
            THEN [err |-> Ok, rows |-> {object_identifier_or_blob.inst}, single |-> TRUE]
            ELSE SQLAdapter_get_blobs(s,
                    [get_blobs_args EXCEPT
                        !.uuid = uuid_,
                        !.include_hidden = FALSE,
                        !.check_namespace = self.namespace # None,
                        !.namespace_to_check = self.namespace,
                        !.assert_exists = TRUE]))

update_blob_whitelist == {"new_name", "type_", "extra", "username", "hidden", "data"}

\* update_blob up to the return of self.db_adapter.update_blob(...): the row
\* is written and committed, or the call has raised.
update_blob_row(self, s, object_or_blob_identifier, name, uuid, kwargs) ==
    LET is_blob == object_or_blob_identifier.kind = "blob"
        uuid_ == IF is_blob THEN object_or_blob_identifier.inst.uuid ELSE uuid
        object_identifier == IF is_blob THEN NoIdent ELSE object_or_blob_identifier
        has(k) == k \in DOMAIN kwargs
        update_data == has("data")
        new_data == IF ~isinstance_bytes(kwargs.data) THEN serialize(kwargs.data)
                    ELSE kwargs.data.bytes
        update_kwargs(extra_data) ==
            [k \in (DOMAIN kwargs \ {"data", "extra"})
                    \cup (IF update_data THEN {"serialization", "size"} ELSE {})
                    \cup (IF has("extra") THEN {"extra_data"} ELSE {}) |->
                IF k = "serialization"
                THEN (IF ~isinstance_bytes(kwargs.data) THEN self.serialization ELSE None)
                ELSE IF k = "size" THEN Len(new_data)
                ELSE IF k = "extra_data" THEN extra_data.bytes
                ELSE kwargs[k]]
        update(extra_data) ==
            IF has("extra") /\ ~isinstance_dict(kwargs.extra) THEN Raise(s, "AssertionError")
            ELSE IF has("extra") /\ extra_data.err # Ok THEN Raise(s, extra_data.err)
            ELSE IF has("extra") /\ ~extra_fits(self, extra_data.bytes)
                 THEN Raise(s, "AssertionError")
            ELSE SQLAdapter_update_blob(s, uuid_if_object(object_identifier),
                            name, uuid_, update_kwargs(extra_data),
                            self.namespace # None, self.namespace)
    IN IF ~(DOMAIN kwargs \subseteq update_blob_whitelist) THEN Raise(s, "AssertionError")
       ELSE IF is_blob /\ name # None THEN Raise(s, "AssertionError")
       ELSE IF uuid_ = None /\ object_identifier.kind = "none"
            THEN Raise(s, "AssertionError")
       ELSE IF uuid_ # None /\ (object_identifier.kind # "none" \/ name # None)
            THEN Raise(s, "AssertionError")
       ELSE IF update_data /\ ~isinstance_bytes(kwargs.data) /\ ~picklable(kwargs.data)
            THEN Raise(s, "TypeError")
       ELSE update(pack_extra(kwargs.extra))

\* The rest of update_blob, the adapter's call having ended as `r`:
\* if update_data: self.stash.put(self.get_blob_key(cur_uuid), new_data)
update_blob_put(self, kwargs, r) ==
    LET update_data == "data" \in DOMAIN kwargs
        new_data == IF ~isinstance_bytes(kwargs.data) THEN serialize(kwargs.data)
                    ELSE kwargs.data.bytes
    IN IF r.err # Ok THEN r
       ELSE IF update_data
            THEN [s |-> LET cur_uuid == CHOOSE u \in r.ret : TRUE
                        IN stash_put(r.s, get_blob_key(self, cur_uuid), new_data),
                  err |-> Ok, ret |-> {}]
       ELSE [s |-> r.s, err |-> Ok, ret |-> {}]

BasicDB_update_blob(self, s, object_or_blob_identifier, name, uuid, kwargs) ==
    update_blob_put(self, kwargs,
                    update_blob_row(self, s, object_or_blob_identifier, name, uuid,
                                    kwargs))

\* for uuid in uuid_list: self.stash.delete(self.get_blob_key(uuid))
RECURSIVE stash_delete_all(_, _, _)
stash_delete_all(self, s, uuids) ==
    IF uuids = <<>> THEN s
    ELSE stash_delete_all(self, stash_delete(s, get_blob_key(self, Head(uuids))),
                          Tail(uuids))

delete_blob_unstash_unchecked(self, to_delete, hide_only, r) ==
    IF hide_only THEN r
    ELSE [s |-> stash_delete_all(self, r.s, uuid_list(to_delete)),
          err |-> r.err, ret |-> {}]

\* delete_blob up to the return of self.db_adapter.delete_blobs(...): the
\* rows are hidden or removed and that is committed, or the call has raised.
delete_blob_rows(self, s, to_delete, hide_only) ==
    IF ~hard_delete_allowed(self, hide_only) THEN Raise(s, "AssertionError")
    ELSE SQLAdapter_delete_blobs(s, uuid_list(to_delete), hide_only,
                                 self.namespace # None, self.namespace)

\* The rest of delete_blob, the adapter's call having ended as `r`:
\* if not hide_only: for uuid in uuid_list: self.stash.delete(...)
delete_blob_unstash(self, to_delete, hide_only, r) ==
    IF r.err # Ok \/ hide_only THEN r
    ELSE [s |-> stash_delete_all(self, r.s, uuid_list(to_delete)),
          err |-> Ok, ret |-> {}]

BasicDB_delete_blob(self, s, to_delete, hide_only) ==
    delete_blob_unstash(self, to_delete, hide_only,
                        delete_blob_rows(self, s, to_delete, hide_only))

BasicDB_insert_relationship(self, s, first, second, type_, return_result) ==
    IF first.kind = "none" \/ second.kind = "none" THEN Raise(s, "AssertionError")
    ELSE SQLAdapter_insert_relationship(s, uuid_if_object(first), uuid_if_object(second),
                                        type_, return_result,
                                        self.namespace # None, self.namespace)

\* type_ is None, a string (made a one-element list) or a list of strings.
BasicDB_get_relationship(self, s, first, second, type_, uuid, uuids, include_hidden) ==
    SQLAdapter_get_relationships(s,
        [get_relationships_args EXCEPT
            !.first = uuid_if_object(first),
            !.second = uuid_if_object(second),
            !.type_ = IF type_.kind = "str" THEN TypeList(<<type_.str>>) ELSE type_,
            !.uuid = uuid,
            !.uuids = uuids,
            !.filter_namespace = self.namespace # None,
            !.namespace = self.namespace,
            !.include_hidden = include_hidden])

\* first is None, an object identifier or a Relationship instance (kind
\* "relationship").
BasicDB_update_relationship_shown(self, s, first, second, type_, uuid, new_type, hidden) ==
    LET is_rel == first.kind = "relationship"
    IN IF is_rel /\ (second.kind # "none" \/ type_ # None \/ uuid # None)
       THEN Raise(s, "AssertionError")
       ELSE SQLAdapter_update_relationship(s,
                IF is_rel THEN NoIdent ELSE uuid_if_object(first),
                uuid_if_object(second), type_,
                IF is_rel THEN first.inst.uuid ELSE uuid,
                new_type, IF hidden = NoBool THEN Bool(FALSE) ELSE hidden,
                self.namespace # None, self.namespace)

BasicDB_update_relationship(self, s, first, second, type_, uuid, new_type, hidden) ==
    LET is_rel == first.kind = "relationship"
    IN IF is_rel /\ (second.kind # "none" \/ type_ # None \/ uuid # None)
       THEN Raise(s, "AssertionError")
       ELSE SQLAdapter_update_relationship(s,
                IF is_rel THEN NoIdent ELSE uuid_if_object(first),
                uuid_if_object(second), type_,
                IF is_rel THEN first.inst.uuid ELSE uuid,
                new_type, hidden, self.namespace # None, self.namespace)

BasicDB_delete_relationship(self, s, to_delete, hide_only) ==
    IF ~hard_delete_allowed(self, hide_only) THEN Raise(s, "AssertionError")
    ELSE SQLAdapter_delete_relationships(s, uuid_list(to_delete), hide_only,
                                         self.namespace # None, self.namespace)

(***************************************************************************)
(* The state machine.  objects, blobs and relationships are the tables,    *)
(* stash maps a key to the bytes stored under it, now is the clock and     *)
(* nuuid counts the uuids drawn.  written records, per blob, the data of   *)
(* the most recent successful insert_blob or update_blob(data=...), and    *)
(* last the most recent call: the store's namespace and its                *)
(* max_extra_fields_size, the method, the names of the keywords and the    *)
(* hide_only flag it was given, and the exception it raised; given is the  *)
(* extra that call was handed (None when it was handed none).  running     *)
(* holds the calls that have begun and not returned, by method name: the   *)
(* statement the call is at (pc), its store, the rows its session has      *)
(* read and its arguments.                                                 *)
(***************************************************************************)

\* At most MaxTime writes are committed in a run.
MaxTime == 4

St ==
    [objects |-> objects, blobs |-> blobs, relationships |-> relationships,
     stash |-> stash, now |-> now, nuuid |-> nuuid]

Init ==
    /\ objects = {}
    /\ blobs = {}
    /\ relationships = {}
    /\ stash = <<>>
    /\ now = 1
    /\ nuuid = 0
    /\ written = <<>>
    /\ last = [store |-> None, ceiling |-> Size(DefaultMaxExtraFieldsSize),
               op |-> "__init__", kw |-> {}, hide_only |-> TRUE, err |-> Ok]
    /\ given = NoneV
    /\ running = <<>>

\* The call `op` of store `self`, given the keywords `kw` and `hide_only` and
\* the extra `extra`, returns or raises as `r`.
Returned(self, op, kw, hide_only, r, extra) ==
    /\ objects' = r.s.objects
    /\ blobs' = r.s.blobs
    /\ relationships' = r.s.relationships
    /\ stash' = r.s.stash
    /\ now' = r.s.now
    /\ nuuid' = r.s.nuuid
    /\ last' = [store |-> self.namespace, ceiling |-> self.max_extra_fields_size,
                op |-> op, kw |-> kw, hide_only |-> hide_only, err |-> r.err]
    /\ given' = extra

\* The call `op` of store `self`, given the keywords `kw` and `hide_only` and
\* the extra `extra`, ran from its first statement to its last with no other
\* call in between, and ended as `r`.
CalledWith(self, op, kw, hide_only, r, extra) ==
    /\ Returned(self, op, kw, hide_only, r, extra)
    /\ UNCHANGED running

\* The call `op` of store `self`, given the keywords `kw` and `hide_only` and
\* no extra, ended as `r`.
Called(self, op, kw, hide_only, r) == CalledWith(self, op, kw, hide_only, r, NoneV)

\* The blobs of `s2` that `s` does not have got their data from `items`.
written_by(s, s2, items) ==
    [u \in {b.uuid : b \in s2.blobs} \ {b.uuid : b \in s.blobs} |->
        LET b == CHOOSE x \in s2.blobs : x.uuid = u
            i == CHOOSE j \in 1..Len(items) : items[j].name = b.name
        IN items[i].data]

\* What a call may be given for an object: its uuid, a name, or the instance
\* a get has just returned.
ObjectIdentifiers(names) ==
    {ByUuid(o.uuid) : o \in objects} \cup {ByName(n) : n \in names}
        \cup {Instance(Object_to_public(o)) : o \in objects}

ObjectUuids == {ByUuid(o.uuid) : o \in objects}

Insert(self, namespaces, names, data) ==
    /\ now <= MaxTime
    /\ \E namespace \in namespaces, name \in names, blob \in data :
        LET called(r) ==
                /\ Called(self, "insert", {}, TRUE, r)
                /\ written' = written_by(St, r.s, <<[name |-> None, data |-> blob]>>)
                                @@ written
        IN called(BasicDB_insert(self, St, namespace, name, None, None, None,
                                 EmptyExtra, blob, NoList, TRUE))

Update(self, identifiers, kwargs) ==
    /\ now <= MaxTime
    /\ \E object_identifier \in identifiers, kw \in kwargs :
        /\ Called(self, "update", DOMAIN kw, TRUE, BasicDB_update(self, St, object_identifier, kw))
        /\ UNCHANGED written

Delete(self, hide) ==
    /\ now <= MaxTime
    /\ \E o \in objects, hide_only \in hide :
        /\ Called(self, "delete", {}, hide_only,
                  BasicDB_delete(self, St, <<ByUuid(o.uuid)>>, hide_only))
        /\ UNCHANGED written

InsertBlob(self, identifiers, names, data) ==
    /\ now <= MaxTime
    /\ \E object_or_uuid \in identifiers, name \in names, d \in data :
        LET called(r) ==
                /\ Called(self, "insert_blob", {}, TRUE, r)
                /\ written' = written_by(St, r.s, <<[name |-> name, data |-> d]>>)
                                @@ written
        IN called(BasicDB_insert_blob(self, St, object_or_uuid, name, None, None,
                                      EmptyExtra, d))

\* insert(blobs=items): items is the dict as the list of its (name, data) pairs.
InsertWithBlobs(self, names, blob_lists) ==
    /\ now <= MaxTime
    /\ \E name \in names, items \in blob_lists :
        LET called(r) ==
                /\ Called(self, "insert", {"blobs"}, TRUE, r)
                /\ written' = written_by(St, r.s, items) @@ written
        IN called(BasicDB_insert(self, St, None, name, None, None, None,
                                 EmptyExtra, NoData, List(items), TRUE))

\* insert_blob(object_or_uuid, name, extra=extra, data=d)
InsertBlobExtra(self, identifiers, names, extras, data) ==
    /\ now <= MaxTime
    /\ \E object_or_uuid \in identifiers, name \in names, extra \in extras, d \in data :
        LET called(r) ==
                /\ CalledWith(self, "insert_blob", {"extra"}, TRUE, r, extra)
                /\ written' = written_by(St, r.s, <<[name |-> name, data |-> d]>>)
                                @@ written
        IN called(BasicDB_insert_blob(self, St, object_or_uuid, name, None, None,
                                      extra, d))

\* update_blob addressed by the blob's uuid, or by (object, name).
UpdateBlob(self, identifiers, names, kwargs) ==
    /\ now <= MaxTime
    /\ \E kw \in kwargs :
        \E a \in {[o |-> NoIdent, name |-> None, uuid |-> b.uuid] : b \in blobs}
                \cup {[o |-> i, name |-> n, uuid |-> None] :
                        i \in identifiers, n \in names} :
            LET target == SQLAdapter_get_blobs(St,
                            [get_blobs_args EXCEPT !.object_identifier = uuid_if_object(a.o),
                                                   !.name = a.name,
                                                   !.match_name = TRUE,
                                                   !.uuid = a.uuid,
                                                   !.include_hidden = TRUE]).rows
                called(r) ==
                    /\ CalledWith(self, "update_blob", DOMAIN kw, TRUE, r,
                                  IF "extra" \in DOMAIN kw THEN kw.extra ELSE NoneV)
                    /\ written' = IF r.err = Ok /\ "data" \in DOMAIN kw
                                  THEN [u \in {b.uuid : b \in target} |-> kw.data] @@ written
                                  ELSE written
            IN called(BasicDB_update_blob(self, St, a.o, a.name, a.uuid, kw))

DeleteBlob(self, hide) ==
    /\ now <= MaxTime
    /\ \E b \in blobs, hide_only \in hide :
        /\ Called(self, "delete_blob", {}, hide_only,
                  BasicDB_delete_blob(self, St, <<ByUuid(b.uuid)>>, hide_only))
        /\ UNCHANGED written

InsertRelationship(self, identifiers, types) ==
    /\ now <= MaxTime
    /\ \E first \in identifiers, second \in identifiers, type_ \in types :
        /\ Called(self, "insert_relationship", {}, TRUE,
                  BasicDB_insert_relationship(self, St, first, second, type_, TRUE))
        /\ UNCHANGED written

\* update_relationship addressed by the relationship's uuid, or by
\* (first, second, type_).
UpdateRelationship(self, identifiers, types, new_types, hide) ==
    /\ now <= MaxTime
    /\ \E new_type \in new_types, hidden \in hide :
        \E a \in {[first |-> NoIdent, second |-> NoIdent, type_ |-> None, uuid |-> x.uuid] :
                        x \in relationships}
                \cup {[first |-> f, second |-> g, type_ |-> t, uuid |-> None] :
                        f \in identifiers, g \in identifiers, t \in types} :
            /\ Called(self, "update_relationship",
                      (IF new_type # None THEN {"new_type"} ELSE {})
                        \cup (IF hidden # NoBool THEN {"hidden"} ELSE {}),
                      TRUE,
                      BasicDB_update_relationship(self, St, a.first, a.second, a.type_,
                                                  a.uuid, new_type, hidden))
            /\ UNCHANGED written

DeleteRelationship(self, hide) ==
    /\ now <= MaxTime
    /\ \E x \in relationships, hide_only \in hide :
        /\ Called(self, "delete_relationship", {}, hide_only,
                  BasicDB_delete_relationship(self, St, <<ByUuid(x.uuid)>>, hide_only))
        /\ UNCHANGED written

\* insert(name=name, extra=extra)
InsertExtra(self, names, extras) ==
    /\ now <= MaxTime
    /\ \E name \in names, extra \in extras :
        /\ CalledWith(self, "insert", {"extra"}, TRUE,
                      BasicDB_insert(self, St, None, name, None, None, None, extra,
                                     NoData, NoList, TRUE),
                      extra)
        /\ UNCHANGED written

\* update(object_identifier, extra=extra)
UpdateExtra(self, extras) ==
    /\ now <= MaxTime
    /\ \E o \in objects, extra \in extras :
        /\ CalledWith(self, "update", {"extra"}, TRUE,
                      BasicDB_update(self, St, ByUuid(o.uuid), [extra |-> extra]),
                      extra)
        /\ UNCHANGED written

\* The caller's assignments to a fetched instance: inst.username = username,
\* inst.name = name, inst.hidden = hidden (each unless None) and then
\* setattr(inst, key, value) (unless key is None).
edited(inst, username, name, hidden, key, value) ==
    LET a == IF username = None THEN inst ELSE Object_setattr(inst, "username", username)
        b == IF name = None THEN a ELSE Object_setattr(a, "name", name)
        c == IF hidden = NoBool THEN b ELSE Object_setattr(b, "hidden", hidden[1])
    IN IF key = None THEN c ELSE Object_setattr(c, key, value)

\* inst = get(uuid=...); assignments to inst; update(inst)
UpdateInstance(self, usernames, names, hide, keys, values) ==
    /\ now <= MaxTime
    /\ \E o \in objects, username \in usernames, name \in names, hidden \in hide,
          key \in keys, value \in values :
        LET call(fetched) ==
                LET inst == edited(Object_to_public(CHOOSE x \in fetched.rows : TRUE),
                                   username, name, hidden, key, value)
                IN /\ fetched.err = Ok /\ fetched.rows # {}
                   /\ CalledWith(self, "update", {}, TRUE,
                                 BasicDB_update(self, St, Instance(inst), <<>>),
                                 inst.extra)
        IN /\ call(BasicDB_get(self, St, [get_args EXCEPT !.uuid = o.uuid]))
           /\ UNCHANGED written

(***************************************************************************)
(* Calls taken a session at a time.  Between the statements of one call    *)
(* other calls take theirs; every session reads the rows committed so far  *)
(* and no statement takes a lock.                                          *)
(***************************************************************************)

\* A call that has not returned did a statement: the store is as `s`, the
\* calls in progress as `run`.
Stepped(s, run) ==
    /\ objects' = s.objects
    /\ blobs' = s.blobs
    /\ relationships' = s.relationships
    /\ stash' = s.stash
    /\ now' = s.now
    /\ nuuid' = s.nuuid
    /\ running' = run
    /\ UNCHANGED <<last, given>>

\* The call `op` in progress, given the keywords `kw`, returns or raises as `r`.
Ended(self, op, kw, hide_only, r) ==
    /\ Returned(self, op, kw, hide_only, r, NoneV)
    /\ running' = [p \in DOMAIN running \ {op} |-> running[p]]

\* delete(o, hide_only=False) up to the first statement of delete_objects:
\* objs = self.get_object(uuids=uuids, session=session, ...)
BeginDelete(self) ==
    /\ now <= MaxTime
    /\ "delete" \notin DOMAIN running
    /\ \E o \in objects :
        LET begun(objs) ==
                IF ~hard_delete_allowed(self, FALSE) \/ objs.err # Ok
                        \/ Cardinality(objs.rows) # 1
                THEN Ended(self, "delete", {}, FALSE, Raise(St, "AssertionError"))
                ELSE Stepped(St, ("delete" :> [pc |-> "blobs", self |-> self,
                                               obj |-> objs.rows]) @@ running)
        IN /\ begun(SQLAdapter_get_object(St,
                        [get_object_args EXCEPT !.uuids = List(<<o.uuid>>),
                                                !.include_hidden = TRUE,
                                                !.filter_namespace = self.namespace # None,
                                                !.namespace = self.namespace]))
           /\ UNCHANGED written

\* The three dependency checks of the hard delete, one session each:
\* self.get_blobs(obj.uuid, include_hidden=True),
\* self.get_relationships(first=obj.uuid, include_hidden=True) and
\* self.get_relationships(second=obj.uuid, include_hidden=True).
CheckDelete(self) ==
    /\ now <= MaxTime
    /\ "delete" \in DOMAIN running
    /\ running["delete"].self = self
    /\ running["delete"].pc \in {"blobs", "first", "second"}
    /\ LET call == running["delete"]
           obj == ByUuid((CHOOSE o \in call.obj : TRUE).uuid)
           checked(found) ==
                IF found.err # Ok THEN Ended(self, "delete", {}, FALSE, Raise(St, found.err))
                ELSE IF Cardinality(found.rows) # 0
                     THEN Ended(self, "delete", {}, FALSE, Raise(St, "DeletionError"))
                ELSE Stepped(St, [running EXCEPT !["delete"].pc =
                                    CASE call.pc = "blobs" -> "first"
                                      [] call.pc = "first" -> "second"
                                      [] call.pc = "second" -> "delete"])
       IN checked(CASE call.pc = "blobs" ->
                        SQLAdapter_get_blobs(St,
                            [get_blobs_args EXCEPT !.object_identifier = obj,
                                                   !.include_hidden = TRUE])
                    [] call.pc = "first" ->
                        SQLAdapter_get_relationships(St,
                            [get_relationships_args EXCEPT !.first = obj,
                                                           !.include_hidden = TRUE])
                    [] call.pc = "second" ->
                        SQLAdapter_get_relationships(St,
                            [get_relationships_args EXCEPT !.second = obj,
                                                           !.include_hidden = TRUE]))
    /\ UNCHANGED written

\* session.delete(obj), and the commit at the end of the with block.
CommitDelete(self) ==
    /\ now <= MaxTime
    /\ "delete" \in DOMAIN running
    /\ running["delete"].self = self
    /\ running["delete"].pc = "delete"
    /\ LET uuids == {o.uuid : o \in running["delete"].obj}
           committed(c) ==
                IF c.err # Ok THEN Ended(self, "delete", {}, FALSE, Raise(c.s, c.err))
                ELSE Ended(self, "delete", {}, FALSE, [s |-> tick(c.s), err |-> Ok, ret |-> {}])
       IN committed(session_scope(St,
                [St EXCEPT !.objects = {o \in objects : o.uuid \notin uuids}]))
    /\ UNCHANGED written

\* insert_blob(o, name, data=data) up to the first statement of the adapter's
\* session: obj = self.get_object_from_identifier(...); assert obj is not None
BeginInsertBlob(self, names, data) ==
    /\ now <= MaxTime
    /\ "insert_blob" \notin DOMAIN running
    /\ \E o \in objects, name \in names, d \in data :
        LET begun(obj) ==
                IF ~isinstance_bytes(d) /\ ~picklable(d)
                THEN Ended(self, "insert_blob", {}, TRUE, Raise(St, "TypeError"))
                ELSE IF obj.err # Ok
                     THEN Ended(self, "insert_blob", {}, TRUE, Raise(St, obj.err))
                ELSE IF obj.rows = {}
                     THEN Ended(self, "insert_blob", {}, TRUE, Raise(St, "AssertionError"))
                ELSE Stepped(St, ("insert_blob" :> [pc |-> "add", self |-> self,
                                                    obj |-> obj.rows, name |-> name,
                                                    data |-> d]) @@ running)
        IN /\ begun(SQLAdapter_get_object_from_identifier(St, ByUuid(o.uuid),
                        self.namespace # None, self.namespace, FALSE, FALSE))
           /\ UNCHANGED written

\* session.add(new_blob), and the commit at the end of the with block.
CommitInsertBlob(self) ==
    /\ now <= MaxTime
    /\ "insert_blob" \in DOMAIN running
    /\ running["insert_blob"].self = self
    /\ running["insert_blob"].pc = "add"
    /\ LET call == running["insert_blob"]
           bytes == IF ~isinstance_bytes(call.data) THEN serialize(call.data)
                    ELSE call.data.bytes
           committed(c) ==
                IF c.err # Ok
                THEN Ended(self, "insert_blob", {}, TRUE, Raise(c.s, translate(c.err)))
                ELSE Stepped(tick(c.s),
                             [running EXCEPT !["insert_blob"] =
                                [pc |-> "put", self |-> self, obj |-> call.obj,
                                 name |-> call.name, data |-> call.data,
                                 uuid |-> uuid4(nuuid + 1)]])
       IN committed(add_blob(St, call.obj, call.name, None, self.username,
                             pack_extra(EmptyExtra).bytes,
                             IF ~isinstance_bytes(call.data) THEN self.serialization
                             ELSE None,
                             Len(bytes)))
    /\ UNCHANGED written

\* The rest of insert_blob: the adapter reads the new row back in a session
\* of its own, and self.stash.put(new_key, data).
PutInsertBlob(self) ==
    /\ "insert_blob" \in DOMAIN running
    /\ running["insert_blob"].self = self
    /\ running["insert_blob"].pc = "put"
    /\ LET call == running["insert_blob"]
           bytes == IF ~isinstance_bytes(call.data) THEN serialize(call.data)
                    ELSE call.data.bytes
           put(new_blob) ==
                IF new_blob.err # Ok
                THEN /\ Ended(self, "insert_blob", {}, TRUE, Raise(St, new_blob.err))
                     /\ UNCHANGED written
                ELSE /\ Ended(self, "insert_blob", {}, TRUE,
                              [s |-> stash_put(St, get_blob_key(self, call.uuid), bytes),
                               err |-> Ok, ret |-> new_blob.rows])
                     /\ written' = (call.uuid :> call.data) @@ written
       IN put(SQLAdapter_get_blobs(St,
                    [get_blobs_args EXCEPT !.uuid = call.uuid,
                                           !.assert_exists = TRUE,
                                           !.check_namespace = FALSE]))

\* update_blob(uuid=u, **kw) up to the return of the adapter's update_blob:
\* its session has committed the row, or the call is raising.
BeginUpdateBlob(self, kwargs) ==
    /\ now <= MaxTime
    /\ "update_blob" \notin DOMAIN running
    /\ \E kw \in kwargs, u \in {b.uuid : b \in blobs} \cup DOMAIN written :
        LET begun(r) ==
                Stepped(r.s, ("update_blob" :> [pc |-> "put", self |-> self,
                                                kwargs |-> kw, err |-> r.err,
                                                ret |-> r.ret]) @@ running)
        IN begun(update_blob_row(self, St, NoIdent, None, u, kw))
    /\ UNCHANGED written

\* The rest of update_blob: the error goes on to the caller, or
\* if update_data: self.stash.put(self.get_blob_key(cur_uuid), new_data)
PutUpdateBlob(self) ==
    /\ "update_blob" \in DOMAIN running
    /\ running["update_blob"].self = self
    /\ LET call == running["update_blob"]
           ended(r) ==
                /\ Ended(self, "update_blob", DOMAIN call.kwargs, TRUE, r)
                /\ written' = IF r.err = Ok /\ "data" \in DOMAIN call.kwargs
                              THEN [u \in call.ret |-> call.kwargs.data] @@ written
                              ELSE written
       IN ended(update_blob_put(self, call.kwargs,
                                [s |-> St, err |-> call.err, ret |-> call.ret]))

\* update_blob(uuid=u, data=d) called by one of `threads`, up to the return of
\* the adapter's update_blob: the row's serialization and size are committed,
\* or the call is raising.
ThreadBeginUpdateBlob(self, threads, data) ==
    /\ now <= MaxTime
    /\ \E thread \in threads, d \in data, b \in blobs :
        LET begun(r) ==
                Stepped(r.s, (thread :> [pc |-> "put", self |-> self,
                                         kwargs |-> [data |-> d], uuid |-> b.uuid,
                                         err |-> r.err, ret |-> r.ret]) @@ running)
        IN /\ thread \notin DOMAIN running
           /\ begun(update_blob_row(self, St, NoIdent, None, b.uuid, [data |-> d]))
    /\ UNCHANGED written

\* The rest of the thread's update_blob:
\* self.stash.put(self.get_blob_key(cur_uuid), new_data)
ThreadPutUpdateBlob(self, threads) ==
    \E thread \in threads \cap DOMAIN running :
        LET call == running[thread]
            ended(r) ==
                /\ Returned(self, "update_blob", {"data"}, TRUE, r, NoneV)
                /\ running' = [running EXCEPT ![thread].pc = "done"]
                /\ written' = IF r.err = Ok
                              THEN [u \in call.ret |-> call.kwargs.data] @@ written
                              ELSE written
        IN /\ call.pc = "put"
           /\ call.self = self
           /\ ended(update_blob_put(self, call.kwargs,
                                    [s |-> St, err |-> call.err, ret |-> call.ret]))

\* delete_blob(u, hide_only) up to the return of the adapter's delete_blobs:
\* its session has committed the removal, or the call is raising.
BeginDeleteBlob(self, hide) ==
    /\ now <= MaxTime
    /\ "delete_blob" \notin DOMAIN running
    /\ \E hide_only \in hide, u \in {b.uuid : b \in blobs} \cup DOMAIN written :
        LET begun(r) ==
                Stepped(r.s, ("delete_blob" :> [pc |-> "unstash", self |-> self,
                                                to_delete |-> <<ByUuid(u)>>,
                                                hide_only |-> hide_only,
                                                err |-> r.err]) @@ running)
        IN begun(delete_blob_rows(self, St, <<ByUuid(u)>>, hide_only))
    /\ UNCHANGED written

\* The rest of delete_blob: the error goes on to the caller, or
\* if not hide_only: for uuid in uuid_list: self.stash.delete(...)
UnstashDeleteBlob(self) ==
    /\ "delete_blob" \in DOMAIN running
    /\ running["delete_blob"].self = self
    /\ LET call == running["delete_blob"]
       IN Ended(self, "delete_blob", {}, call.hide_only,
                delete_blob_unstash(self, call.to_delete, call.hide_only,
                                    [s |-> St, err |-> call.err, ret |-> {}]))
    /\ UNCHANGED written

\* session = self.sessionmaker(), for the session of insert_blob(u, name).
OpenSession(self, names) ==
    /\ now <= MaxTime
    /\ "session_scope" \notin DOMAIN running
    /\ \E u \in {o.uuid : o \in objects} \cup {uuid4(0)}, name \in names :
        Stepped(St, ("session_scope" :>
                        [pc |-> "yield", self |-> self, object |-> ByUuid(u),
                         name |-> name, before |-> St, pending |-> St, err |-> Ok,
                         commits |-> 0, rollbacks |-> 0, closes |-> 0]) @@ running)
    /\ UNCHANGED written

\* yield session: the body of the with block in insert_blob.
\*     obj = self.get_object_from_identifier(...); assert obj is not None
\*     new_blob = Blob(...); session.add(new_blob)
YieldSession(self) ==
    /\ "session_scope" \in DOMAIN running
    /\ running["session_scope"].self = self
    /\ running["session_scope"].pc = "yield"
    /\ LET call == running["session_scope"]
           body(obj) ==
                LET err == IF obj.err # Ok THEN obj.err
                           ELSE IF obj.rows = {} THEN "AssertionError" ELSE Ok
                IN Stepped(St, [running EXCEPT !["session_scope"] =
                        [call EXCEPT !.pc = session_next("yield", err),
                                     !.err = err,
                                     !.pending =
                                        IF err # Ok THEN St
                                        ELSE with_blob(St, obj.rows, call.name, None,
                                                       self.username,
                                                       pack_extra(EmptyExtra).bytes,
                                                       None, 0)]])
       IN body(SQLAdapter_get_object_from_identifier(St, call.object,
                    self.namespace # None, self.namespace, FALSE, FALSE))
    /\ UNCHANGED written

\* session.commit(): the rows the session holds are flushed and stored, or a
\* violated constraint raises and nothing is stored.
CommitSession(self) ==
    /\ "session_scope" \in DOMAIN running
    /\ running["session_scope"].self = self
    /\ running["session_scope"].pc = "commit"
    /\ LET call == running["session_scope"]
           committed(c) ==
                Stepped(IF c.err = Ok THEN tick(c.s) ELSE St,
                        [running EXCEPT !["session_scope"] =
                            [call EXCEPT !.pc = session_next("commit", c.err),
                                         !.err = c.err,
                                         !.commits = IF c.err = Ok THEN @ + 1 ELSE @]])
       IN committed(session_scope(St, call.pending))
    /\ UNCHANGED written

\* except: session.rollback(); raise
RollbackSession(self) ==
    /\ "session_scope" \in DOMAIN running
    /\ running["session_scope"].self = self
    /\ running["session_scope"].pc = "rollback"
    /\ LET call == running["session_scope"]
       IN Stepped(St, [running EXCEPT !["session_scope"] =
                        [call EXCEPT !.pc = session_next("rollback", call.err),
                                     !.pending = St,
                                     !.rollbacks = @ + 1]])
    /\ UNCHANGED written

\* finally: session.close()
CloseSession(self) ==
    /\ "session_scope" \in DOMAIN running
    /\ running["session_scope"].self = self
    /\ running["session_scope"].pc = "close"
    /\ LET call == running["session_scope"]
       IN Stepped(St, [running EXCEPT !["session_scope"] =
                        [call EXCEPT !.pc = session_next("close", call.err),
                                     !.closes = @ + 1]])
    /\ UNCHANGED written

\* The with block is left: the statement after it runs, or the error raised
\* in it goes on to the caller.
ExitSession(self) ==
    /\ "session_scope" \in DOMAIN running
    /\ running["session_scope"].self = self
    /\ running["session_scope"].pc = "exit"
    /\ Ended(self, "session_scope", {}, TRUE,
             [s |-> St, err |-> running["session_scope"].err, ret |-> {}])
    /\ UNCHANGED written

\* inst = get(uuid=u), kept by the caller while other calls go on.
Fetch(self) ==
    /\ "update" \in DOMAIN running => running["update"].pc = "done"
    /\ \E o \in objects :
        LET kept(fetched) ==
                /\ fetched.err = Ok /\ fetched.rows # {}
                /\ Stepped(St, ("update" :>
                            [pc |-> "fetched", self |-> self,
                             inst |-> Object_to_public(CHOOSE x \in fetched.rows : TRUE),
                             found |-> CHOOSE x \in fetched.rows : TRUE]) @@ running)
        IN kept(BasicDB_get(self, St, [get_args EXCEPT !.uuid = o.uuid]))
    /\ UNCHANGED written

\* update(inst, **kw) with the instance fetched earlier; `found` keeps the row
\* as the call found it.
UpdateFetched(self, kwargs) ==
    /\ now <= MaxTime
    /\ "update" \in DOMAIN running
    /\ running["update"].self = self
    /\ running["update"].pc = "fetched"
    /\ \E kw \in kwargs :
        LET call == running["update"]
        IN /\ Returned(self, "update", DOMAIN kw, TRUE,
                       BasicDB_update(self, St, Instance(call.inst), kw),
                       call.inst.extra)
           /\ running' = [running EXCEPT !["update"] =
                            [call EXCEPT !.pc = "done",
                                         !.found = CHOOSE o \in objects :
                                                        o.uuid = call.inst.uuid]]
    /\ UNCHANGED written

\* insert_relationship(first, second, type_) up to the reads of its session:
\* first = self.get_object_from_identifier(first, ...); assert first is not None
\* and the same for second.
BeginInsertRelationship(self, types) ==
    /\ now <= MaxTime
    /\ "insert_relationship" \notin DOMAIN running
    /\ \E f \in objects, g \in objects, type_ \in types :
        LET begun(first, second) ==
                IF first.err # Ok
                THEN Ended(self, "insert_relationship", {}, TRUE, Raise(St, first.err))
                ELSE IF first.rows = {} \/ (second.err = Ok /\ second.rows = {})
                     THEN Ended(self, "insert_relationship", {}, TRUE,
                                Raise(St, "AssertionError"))
                ELSE IF second.err # Ok
                     THEN Ended(self, "insert_relationship", {}, TRUE, Raise(St, second.err))
                ELSE Stepped(St, ("insert_relationship" :>
                                    [pc |-> "add", self |-> self, obj |-> first.rows,
                                     second |-> second.rows, type_ |-> type_]) @@ running)
        IN /\ begun(SQLAdapter_get_object_from_identifier(St, ByUuid(f.uuid),
                        self.namespace # None, self.namespace, FALSE, FALSE),
                    SQLAdapter_get_object_from_identifier(St, ByUuid(g.uuid),
                        self.namespace # None, self.namespace, FALSE, FALSE))
           /\ UNCHANGED written

\* session.add(new_rel), the commit at the end of the with block, and the
\* read of the new row in a session of its own.
CommitInsertRelationship(self) ==
    /\ now <= MaxTime
    /\ "insert_relationship" \in DOMAIN running
    /\ running["insert_relationship"].self = self
    /\ running["insert_relationship"].pc = "add"
    /\ LET call == running["insert_relationship"]
           committed(c) ==
                LET returned(got) ==
                        Ended(self, "insert_relationship", {}, TRUE,
                              [s |-> tick(c.s), err |-> got.err, ret |-> {}])
                IN IF c.err # Ok
                   THEN Ended(self, "insert_relationship", {}, TRUE,
                              Raise(c.s, translate(c.err)))
                   ELSE returned(SQLAdapter_get_relationships(c.s,
                            [get_relationships_args EXCEPT !.uuid = uuid4(nuuid + 1),
                                                           !.assert_exists = TRUE,
                                                           !.filter_namespace = FALSE]))
       IN committed(add_relationship(St, call.obj, call.second, call.type_))
    /\ UNCHANGED written

\* BasicDB(...) with the defaults: no fixed namespace, no hard deletes.
DefaultStore == BasicDB(None, FALSE)

\* BasicDB(..., allow_hard_delete=True)
HardStore == BasicDB(None, TRUE)

\* BasicDB(..., namespace='s1')
FixedStore == BasicDB("s1", FALSE)

RawEmpty == Bytes(<<>>)

\* Raw bytes that happen to be the pickle of the integer 1.
RawPickle == Bytes(serialize(PyInt(1)))

\* Every operation, on a store with the defaults.
Next ==
    \E self \in {DefaultStore} :
        \/ Insert(self, {None, "s1"}, {None, "a"}, {NoData})
        \/ Update(self, ObjectIdentifiers({"a"}),
                  {[new_name |-> "a"], [namespace |-> None], [namespace |-> "s1"],
                   [hidden |-> FALSE]})
        \/ Delete(self, BOOLEAN)
        \/ InsertBlob(self, ObjectUuids, {None, "x"}, {RawEmpty, PyInt(1)})
        \/ UpdateBlob(self, ObjectUuids, {None, "x"},
                      {[new_name |-> None, data |-> PyInt(2)], [new_name |-> "x"],
                       [hidden |-> FALSE], [data |-> RawPickle]})
        \/ DeleteBlob(self, BOOLEAN)
        \/ InsertRelationship(self, ObjectUuids, {None, "t"})
        \/ UpdateRelationship(self, ObjectUuids, {None, "t"}, {None, "t"},
                              {NoBool, Bool(FALSE)})
        \/ DeleteRelationship(self, BOOLEAN)

Spec == Init /\ [][Next]_vars

\* The operations on objects, over two named namespaces and the absent one.
NextObjects ==
    \E self \in {DefaultStore} :
        \/ Insert(self, {None, "s1", "s2"}, {None, "a", "b"}, {NoData})
        \/ Update(self, ObjectIdentifiers({"a", "b"}),
                  {[new_name |-> "a"], [new_name |-> "b"], [namespace |-> None],
                   [namespace |-> "s1"], [namespace |-> "s2"],
                   [new_name |-> "a", namespace |-> "s1"],
                   [hidden |-> FALSE], [hidden |-> TRUE]})
        \/ Delete(self, BOOLEAN)

SpecObjects == Init /\ [][NextObjects]_vars

\* The operations on blobs, and the objects to hang them on.
NextBlobs ==
    \E self \in {DefaultStore} :
        \/ Insert(self, {None}, {None}, {NoData, PyInt(1)})
        \/ Update(self, ObjectUuids, {[hidden |-> FALSE]})
        \/ Delete(self, {TRUE})
        \/ InsertBlob(self, ObjectIdentifiers({}), {None, "x", "y"},
                      {RawEmpty, RawPickle, PyInt(1), NoData})
        \/ UpdateBlob(self, ObjectUuids, {None, "x", "y"},
                      {[new_name |-> None], [new_name |-> "x"],
                       [hidden |-> FALSE], [hidden |-> TRUE],
                       [data |-> RawPickle], [data |-> PyInt(2)],
                       [new_name |-> "y", data |-> RawEmpty]})
        \/ DeleteBlob(self, {TRUE})

SpecBlobs == Init /\ [][NextBlobs]_vars

\* The operations on relationships, and the objects they join.
NextRelationships ==
    \E self \in {DefaultStore} :
        \/ Insert(self, {None}, {None}, {NoData})
        \/ Delete(self, {TRUE})
        \/ InsertRelationship(self, ObjectUuids, {None, "t", "v"})
        \/ UpdateRelationship(self, ObjectUuids, {None, "t", "v"}, {None, "t", "v"},
                              {NoBool, Bool(FALSE), Bool(TRUE)})
        \/ DeleteRelationship(self, {TRUE})

SpecRelationships == Init /\ [][NextRelationships]_vars

\* A store that allows hard deletes.
NextHard ==
    \E self \in {HardStore} :
        \/ Insert(self, {None}, {None}, {NoData, PyInt(1)})
        \/ Delete(self, BOOLEAN)
        \/ InsertBlob(self, ObjectUuids, {None, "x"}, {RawEmpty})
        \/ DeleteBlob(self, BOOLEAN)
        \/ InsertRelationship(self, ObjectUuids, {None, "t"})
        \/ DeleteRelationship(self, BOOLEAN)

SpecHard == Init /\ [][NextHard]_vars

\* A store fixed to the namespace s1 and a store with the defaults, on one
\* database.
NextNamespace ==
    \E self \in {FixedStore, DefaultStore} :
        \/ Insert(self, {None, "s1", "s2"}, {None}, {NoData})
        \/ Update(self, ObjectIdentifiers({}),
                  {[namespace |-> None], [namespace |-> "s1"], [namespace |-> "s2"],
                   [hidden |-> FALSE]})
        \/ Delete(self, {TRUE})
        \/ InsertBlob(self, ObjectUuids, {None}, {RawEmpty})
        \/ DeleteBlob(self, {TRUE})
        \/ InsertRelationship(self, ObjectUuids, {None})
        \/ DeleteRelationship(self, {TRUE})

SpecNamespace == Init /\ [][NextNamespace]_vars

\* Objects in the absent namespace and in s1, some of them named, and the
\* relationships between them, written by a store with the defaults.
NextQueries ==
    \E self \in {DefaultStore} :
        \/ Insert(self, {None, "s1"}, {None, "a"}, {NoData})
        \/ Delete(self, {TRUE})
        \/ InsertRelationship(self, ObjectUuids, {None, "t"})
        \/ DeleteRelationship(self, {TRUE})

SpecQueries == Init /\ [][NextQueries]_vars

\* {'key': 5}
ExtraKey5 == DictV(<<attr_key("key"), IntV(5)>>)

\* {2: 3}
Extra23 == DictV(<<IntV(2), IntV(3)>>)

\* 'hi'
StrHi == StrV(<<104, 105>>)

\* {2: 128}
Extra2Big == DictV(<<IntV(2), IntV(128)>>)

\* Objects with extras, and instances of them changed and handed back.
NextExtras ==
    \E self \in {DefaultStore} :
        \/ InsertExtra(self, {None, "a"}, {EmptyExtra, ExtraKey5})
        \/ UpdateExtra(self, {Extra23})
        \/ UpdateInstance(self, {None, "third_person"}, {None}, {NoBool},
                          {None, "key", "not_a_field"}, {IntV(4), StrHi})
        \/ Delete(self, {TRUE})

SpecExtras == Init /\ [][NextExtras]_vars

\* BasicDB(..., max_extra_fields_size=3): as long as the packed {2: 3}.
CeilingStore == [BasicDB(None, FALSE) EXCEPT !.max_extra_fields_size = Size(Len(packb(Extra23).bytes))]

\* BasicDB(..., max_extra_fields_size=None)
UnlimitedStore == [BasicDB(None, FALSE) EXCEPT !.max_extra_fields_size = NoSize]

\* Objects and blobs with extras one byte apart in packed length, written by a
\* store with a ceiling and by a store without.
NextCeiling ==
    \E self \in {CeilingStore, UnlimitedStore} :
        \/ InsertExtra(self, {None, "a"}, {Extra23, Extra2Big})
        \/ UpdateExtra(self, {Extra23, Extra2Big})
        \/ InsertBlobExtra(self, ObjectUuids, {None}, {Extra23, Extra2Big}, {RawEmpty})
        \/ UpdateBlob(self, {}, {}, {[extra |-> Extra23], [extra |-> Extra2Big],
                                     [extra |-> Extra2Big, data |-> RawPickle]})

SpecCeiling == Init /\ [][NextCeiling]_vars

\* Objects in the absent namespace and in s1, some of them named, typed and
\* subtyped.
NextGet ==
    \E self \in {DefaultStore} :
        \/ Insert(self, {None, "s1"}, {None, "a"}, {NoData})
        \/ Update(self, ObjectUuids,
                  {[type_ |-> "t"], [type_ |-> "t", subtype |-> "u"], [type_ |-> "v"]})
        \/ Delete(self, {TRUE})

SpecGet == Init /\ [][NextGet]_vars

\* The values the packing tests pack, values at the edges of msgpack's
\* formats, and values msgpack does not pack.
CodecValues ==
    LET s(b) == StrV(b)
        zeros(n) == [j \in 1..n |-> IntV(0)]
        pi == FloatV(<<64, 9, 30, 184, 81, 235, 133, 31>>)
        minus_one == FloatV(<<191, 240, 0, 0, 0, 0, 0, 0>>)
        four_two == FloatV(<<64, 16, 204, 204, 204, 204, 204, 205>>)
        inf == FloatV(<<127, 240, 0, 0, 0, 0, 0, 0>>)
        nan == FloatV(<<127, 248, 0, 0, 0, 0, 0, 0>>)
        tmp == DataclassV(<<IntV(0), minus_one>>)
        tmp2 == NamedTupleV(<<IntV(0), IntV(1)>>)
    IN {IntV(n) : n \in {0, 1, -1, 127, 128, 255, 256, 65535, 65536, 2147483647,
                         -32, -33, -128, -129, -32768, -32769, -2147483647}}
       \cup {BigIntV(<<128, 0, 0, 0>>), BigIntV(<<255, 255, 255, 255>>),
             BigIntV(<<1, 0, 0, 0, 0>>), BigIntV([j \in 1..8 |-> 255]),
             BigIntV(<<1, 0, 0, 0, 0, 0, 0, 0, 0>>)}
       \cup {pi, minus_one, inf, nan, BoolV(TRUE), BoolV(FALSE), NoneV,
             BytesV(<<53, 51, 49>>), BytesV(<<>>), s(<<>>), s(<<48>>),
             s([j \in 1..31 |-> 97]), s([j \in 1..32 |-> 97])}
       \cup {ListV(<<>>), ListV(<<IntV(0)>>), ListV(<<IntV(2), IntV(3), s(<<52>>)>>),
             ListV(<<NoneV, NoneV>>), ListV(zeros(15)), ListV(<<nan>>),
             ListV(<<ListV(<<TupleV(<<ListV(<<>>)>>)>>)>>)}
       \cup {TupleV(<<>>), TupleV(<<IntV(0)>>), TupleV(<<IntV(0), IntV(1)>>),
             TupleV(<<IntV(0), IntV(2), IntV(3)>>), TupleV(zeros(7)), TupleV(zeros(15)),
             TupleV(<<IntV(0), IntV(1),
                      ListV(<<IntV(2), IntV(3), TupleV(<<IntV(-1), IntV(-5)>>)>>)>>)}
       \cup {DictV(<<>>), DictV(<<IntV(0), s(<<48>>), s(<<48>>), IntV(0)>>),
             DictV(<<s(<<102, 111, 111>>), s(<<98, 97, 114>>),
                     s(<<102, 111, 111, 50>>), IntV(5),
                     s(<<116, 116, 116>>), four_two,
                     s(<<120, 121, 122>>), TupleV(<<IntV(4), IntV(3)>>),
                     s(<<122, 122, 122>>), ListV(<<IntV(0), minus_one>>)>>),
             DictV(<<TupleV(<<IntV(1), IntV(2)>>), IntV(3), NoneV, BoolV(TRUE)>>)}
       \cup {tmp, tmp2, ListV(<<tmp>>), TupleV(<<IntV(0), tmp2>>),
             DictV(<<IntV(0), tmp>>), DictV(<<tmp2, IntV(0)>>),
             TupleV(<<ListV(<<tmp2>>)>>)}

\* One object, inserted with each of the values as its extra (when the value
\* is a dict) and under the key 0 of its extra, and updated with the tuples
\* among them under the key 0.
NextCodec ==
    \E self \in {DefaultStore} :
        \/ InsertExtra(self, {"a"},
                       {DictV(<<IntV(0), v>>) : v \in CodecValues}
                            \cup {v \in CodecValues : isinstance_dict(v)})
        \/ UpdateExtra(self,
                       {DictV(<<IntV(0), v>>) : v \in {x \in CodecValues : x.kind = "tuple"}})

SpecCodec == Init /\ [][NextCodec]_vars

\* Objects and blobs with and without extras, and instances of the objects
\* changed by attribute and handed back.
NextEntities ==
    \E self \in {DefaultStore} :
        \/ InsertExtra(self, {None}, {EmptyExtra, ExtraKey5, Extra23})
        \/ InsertBlobExtra(self, ObjectUuids, {None}, {EmptyExtra, ExtraKey5, Extra23}, {RawEmpty})
        \/ UpdateInstance(self, {None, "third_person"}, {None}, {NoBool},
                          {None, "key", "not_a_field"}, {IntV(4), StrHi})

SpecEntities == Init /\ [][NextEntities]_vars

\* Objects inserted without a name into the absent namespace and into s1, by
\* a store with the defaults and by one fixed to s1, renamed to a and to the
\* textual form of the first uuid, and hidden.
NextNames ==
    \E self \in {DefaultStore, FixedStore} :
        \/ Insert(self, {None, "s1"}, {None}, {NoData})
        \/ Update(self, ObjectUuids, {[new_name |-> "a"], [new_name |-> str(uuid4(1))]})
        \/ Delete(self, {TRUE})

SpecNames == Init /\ [][NextNames]_vars

\* A hard delete, an insert_blob and an insert_relationship in progress at
\* once on a store that allows hard deletes, and the objects they are about.
NextRace ==
    \E self \in {HardStore} :
        \/ Insert(self, {None}, {None}, {NoData})
        \/ BeginDelete(self)
        \/ CheckDelete(self)
        \/ CommitDelete(self)
        \/ BeginInsertBlob(self, {None, "x"}, {RawEmpty})
        \/ CommitInsertBlob(self)
        \/ PutInsertBlob(self)
        \/ BeginInsertRelationship(self, {None})
        \/ CommitInsertRelationship(self)

SpecRace == Init /\ [][NextRace]_vars

\* The threads that call update_blob.
Threads == {"A", "B"}

\* Two threads that each call update_blob with data once, on the blobs of
\* objects inserted with one.
NextThreads ==
    \E self \in {DefaultStore} :
        \/ Insert(self, {None}, {None}, {RawEmpty, PyInt(1)})
        \/ ThreadBeginUpdateBlob(self, Threads, {RawEmpty, RawPickle, PyInt(2)})
        \/ ThreadPutUpdateBlob(self, Threads)

SpecThreads == Init /\ [][NextThreads]_vars

\* insert_blob, update_blob and delete_blob a statement at a time, one call
\* after the other, on a store that allows hard deletes and on one that does
\* not.
NextStash ==
    \E self \in {HardStore, DefaultStore} :
        \/ running = <<>> /\ Insert(self, {None}, {None}, {NoData})
        \/ running = <<>> /\ Delete(self, BOOLEAN)
        \/ running = <<>> /\ BeginInsertBlob(self, {None, "x"}, {RawEmpty, PyInt(1)})
        \/ CommitInsertBlob(self)
        \/ PutInsertBlob(self)
        \/ running = <<>> /\ BeginUpdateBlob(self, {[data |-> RawPickle], [data |-> Generator], [new_name |-> "x", data |-> PyInt(1)]})
        \/ PutUpdateBlob(self)
        \/ running = <<>> /\ BeginDeleteBlob(self, {TRUE, FALSE})
        \/ UnstashDeleteBlob(self)

SpecStash == Init /\ [][NextStash]_vars

\* The session of insert_blob a statement at a time, one session after the
\* other, on the objects of the store and on an object that does not exist.
NextSession ==
    \E self \in {DefaultStore} :
        \/ running = <<>> /\ Insert(self, {None}, {None}, {NoData})
        \/ running = <<>> /\ Delete(self, {TRUE})
        \/ running = <<>> /\ OpenSession(self, {None, "x"})
        \/ YieldSession(self)
        \/ CommitSession(self)
        \/ RollbackSession(self)
        \/ CloseSession(self)
        \/ ExitSession(self)

SpecSession == Init /\ [][NextSession]_vars

\* update with an instance fetched some calls ago: the object has since been
\* renamed, moved, given an extra or hidden.
NextStale ==
    \E self \in {DefaultStore} :
        \/ Insert(self, {None}, {None, "a"}, {NoData})
        \/ Update(self, ObjectUuids, {[new_name |-> "b"], [namespace |-> "s1"], [extra |-> ExtraKey5, username |-> "third_person"]})
        \/ Delete(self, {TRUE})
        \/ Fetch(self)
        \/ UpdateFetched(self, {<<>>, [username |-> "me"], [hidden |-> TRUE, new_name |-> "c"]})

SpecStale == Init /\ [][NextStale]_vars

\* Objects and blobs inserted with an extra of no key or of one, and given
\* another extra by update and update_blob.
NextReplace ==
    \E self \in {DefaultStore} :
        \/ InsertExtra(self, {None}, {EmptyExtra, ExtraKey5})
        \/ InsertBlobExtra(self, ObjectUuids, {None}, {ExtraKey5, Extra23}, {RawEmpty})
        \/ UpdateExtra(self, {EmptyExtra, ExtraKey5, Extra23})
        \/ UpdateBlob(self, {}, {}, {[extra |-> EmptyExtra], [extra |-> ExtraKey5],
                                     [extra |-> Extra23]})

SpecReplace == Init /\ [][NextReplace]_vars

\* The dicts handed to insert as blobs: of none, one, two and three blobs, a
\* generator object among them as the first, the second or the last.
BlobDicts ==
    {<<>>,
     <<[name |-> "x", data |-> RawEmpty]>>,
     <<[name |-> None, data |-> Generator]>>,
     <<[name |-> "x", data |-> PyInt(1)], [name |-> "y", data |-> Generator]>>,
     <<[name |-> "x", data |-> Generator], [name |-> "y", data |-> RawEmpty]>>,
     <<[name |-> "x", data |-> RawEmpty], [name |-> None, data |-> PyInt(1)],
       [name |-> "y", data |-> Generator]>>}

\* Objects inserted together with their blobs.
NextInsertBlobs ==
    \E self \in {DefaultStore} :
        \/ InsertWithBlobs(self, {None, "a"}, BlobDicts)
        \/ Insert(self, {None}, {None}, {NoData, Generator})
        \/ InsertBlob(self, ObjectUuids, {None, "x"}, {RawEmpty, Generator})
        \/ Delete(self, {TRUE})

SpecInsertBlobs == Init /\ [][NextInsertBlobs]_vars

(***************************************************************************)
(* Properties of the objects table.                                        *)
(***************************************************************************)

\* C1: no two object rows, hidden ones included, have the same namespace and
\* the same name: names are unique within each named namespace and, as a scope
\* of its own, within the absent namespace.
C1_ObjectNamesUnique ==
    \A a \in objects, b \in objects :
        a.uuid # b.uuid => ~(a.namespace = b.namespace /\ a.name = b.name)

\* One name is taken in the absent namespace and in two named ones, once by
\* a hidden row.
C1_SameNameInEachScope ==
    \E a \in objects, b \in objects, c \in objects :
        /\ a.name = b.name /\ b.name = c.name
        /\ a.namespace = None /\ b.namespace = "s1" /\ c.namespace = "s2"
        /\ a.hidden \/ b.hidden \/ c.hidden

\* C5: a soft delete of an object o keeps its row; get without include_hidden
\* then does not return o, get with include_hidden returns o under the same
\* uuid, and after update(o, hidden=False) get without include_hidden returns
\* o again.
C5_SoftDeleteHides ==
    \A o \in objects :
        LET get(s, uuid, include_hidden) ==
                BasicDB_get(DefaultStore, s,
                    [get_args EXCEPT !.uuid = uuid, !.namespace = o.namespace,
                                     !.include_hidden = include_hidden])
            returned(s, uuid, include_hidden) ==
                o.uuid \in {x.uuid : x \in get(s, uuid, include_hidden).rows}
            returns(s, include_hidden) ==
                /\ get(s, None, include_hidden).err = Ok
                /\ get(s, o.uuid, include_hidden).err = Ok
                /\ returned(s, None, include_hidden)
                /\ returned(s, o.uuid, include_hidden)
            deleted == BasicDB_delete(DefaultStore, St, <<ByUuid(o.uuid)>>, TRUE)
            by_uuid == BasicDB_update(DefaultStore, deleted.s, ByUuid(o.uuid),
                                      [hidden |-> FALSE])
            by_object == BasicDB_update(DefaultStore, deleted.s,
                                        Instance(Object_to_public(o)), [hidden |-> FALSE])
        IN /\ deleted.err = Ok
           /\ {x.uuid : x \in deleted.s.objects} = {x.uuid : x \in objects}
           /\ get(deleted.s, None, FALSE).err = Ok
           /\ get(deleted.s, o.uuid, FALSE).err = Ok
           /\ ~returned(deleted.s, None, FALSE)
           /\ ~returned(deleted.s, o.uuid, FALSE)
           /\ returns(deleted.s, TRUE)
           /\ by_uuid.err = Ok /\ returns(by_uuid.s, FALSE)
           /\ by_object.err = Ok /\ returns(by_object.s, FALSE)

\* An object that was hidden has just been made visible again.
C5_Unhidden ==
    /\ last.op = "update" /\ last.kw = {"hidden"} /\ last.err = Ok
    /\ \E o \in objects :
        /\ ~o.hidden
        /\ o.modification_time = now - 1
        /\ o.modification_time >= o.creation_time + 2

(***************************************************************************)
(* Properties of the blobs table and the stash.                            *)
(***************************************************************************)

\* C2: the blobs of one parent, hidden ones included, have distinct names and
\* at most one of them is nameless.  Where a parent has a nameless blob,
\* insert_blob of another nameless blob and update_blob(new_name=None) of one
\* of its named blobs raise IntegrityError; insert_blob gets as far as the
\* table only for a parent it can see, and for a hidden parent fails as well.
C2_BlobNamesUnique ==
    /\ \A a \in blobs, b \in blobs :
        (a.uuid # b.uuid /\ a.parent = b.parent) => a.name # b.name
    /\ \A o \in objects, a \in blobs :
        (a.parent = o.uuid /\ a.name = None) =>
            /\ \A data \in {RawEmpty, PyInt(1), NoData}, object_or_uuid \in
                    {ByUuid(o.uuid), ByName(o.name), Instance(Object_to_public(o))} :
                LET r == BasicDB_insert_blob(DefaultStore, St, object_or_uuid, None,
                                             None, None, EmptyExtra, data)
                IN /\ r.err # Ok
                   /\ r.s = St
                   /\ (~o.hidden /\ (object_or_uuid.kind = "name" => o.namespace = None))
                        => r.err = "IntegrityError"
            /\ \A b \in blobs :
                (b.parent = o.uuid /\ b.name # None) =>
                    /\ BasicDB_update_blob(DefaultStore, St, NoIdent, None, b.uuid,
                                           [new_name |-> None]).err = "IntegrityError"
                    /\ BasicDB_update_blob(DefaultStore, St, ByUuid(o.uuid), b.name, None,
                                           [new_name |-> None]).err = "IntegrityError"
                    /\ BasicDB_update_blob(DefaultStore, St, ByUuid(o.uuid), b.name, None,
                                           [new_name |-> None, data |-> RawEmpty]).err
                            = "IntegrityError"

\* Renaming a named blob to nameless has just been refused, its parent
\* having a nameless blob.
C2_RenameRefused ==
    /\ last.op = "update_blob" /\ last.kw = {"new_name"} /\ last.err = "IntegrityError"
    /\ \E a \in blobs, b \in blobs :
        a.parent = b.parent /\ a.name = None /\ b.name # None

\* C10: load_blob of a visible blob returns the data of the most recent
\* successful insert_blob or update_blob(data=...) of that blob; the blob's
\* serialization is None exactly when that data was bytes and 'pickle'
\* otherwise, and its size is the length of the bytes in the stash.
C10_LoadReturnsWritten ==
    \A b \in blobs :
        LET key == get_blob_key(DefaultStore, b.uuid)
            loaded == [err |-> Ok, ret |-> written[b.uuid]]
        IN /\ b.uuid \in DOMAIN written
           /\ key \in DOMAIN stash
           /\ b.size = Len(stash[key])
           /\ b.serialization = None <=> isinstance_bytes(written[b.uuid])
           /\ b.serialization # None => b.serialization = "pickle"
           /\ ~b.hidden =>
                /\ BasicDB_load_blob(DefaultStore, St, NoIdent, None, b.uuid) = loaded
                /\ BasicDB_load_blob(DefaultStore, St,
                        [kind |-> "blob", inst |-> Blob_to_public(b)], None, None) = loaded
                /\ \A o \in objects :
                    (o.uuid = b.parent /\ ~o.hidden) =>
                        BasicDB_load_blob(DefaultStore, St, ByUuid(o.uuid), b.name, None)
                            = loaded

\* The data of a visible blob that held a pickled object has just been
\* replaced by bytes that read as a pickle.
C10_Rewritten ==
    /\ last.op = "update_blob" /\ "data" \in last.kw /\ last.err = Ok
    /\ \E b \in blobs :
        /\ ~b.hidden
        /\ b.modification_time = now - 1
        /\ written[b.uuid] = RawPickle
        /\ b.size = 5

(***************************************************************************)
(* Properties of the relationships table.                                  *)
(***************************************************************************)

\* C3: of the relationships from one object to one other, hidden ones
\* included, at most one is untyped and no two have the same type.
\* insert_relationship of a relationship that exists and update_relationship
\* with the new_type of another relationship of the pair raise IntegrityError.
C3_RelationshipsUnique ==
    /\ \A a \in relationships, b \in relationships :
        (a.uuid # b.uuid /\ a.first = b.first /\ a.second = b.second)
            => a.type_ # b.type_
    /\ \A x \in relationships :
        /\ (\A o \in objects : o.uuid \in {x.first, x.second} => ~o.hidden) =>
                LET r == BasicDB_insert_relationship(DefaultStore, St, ByUuid(x.first),
                                                     ByUuid(x.second), x.type_, TRUE)
                IN r.err = "IntegrityError" /\ r.s = St
        /\ \A y \in relationships :
            (y.uuid # x.uuid /\ y.first = x.first /\ y.second = x.second
                /\ x.type_ # None) =>
                /\ BasicDB_update_relationship(DefaultStore, St, NoIdent, NoIdent, None,
                        y.uuid, x.type_, NoBool).err = "IntegrityError"
                /\ BasicDB_update_relationship(DefaultStore, St,
                        [kind |-> "relationship", inst |-> Relationship_to_public(y)],
                        NoIdent, None, None, x.type_, NoBool).err = "IntegrityError"
                /\ y.type_ # None =>
                    BasicDB_update_relationship(DefaultStore, St, ByUuid(y.first),
                        ByUuid(y.second), y.type_, None, x.type_, NoBool).err
                            = "IntegrityError"

\* Giving a relationship the type of another one of its pair has just been
\* refused; the pair has an untyped and a typed relationship.
C3_RetypeRefused ==
    /\ last.op = "update_relationship" /\ last.err = "IntegrityError"
    /\ \E a \in relationships, b \in relationships :
        /\ a.first = b.first /\ a.second = b.second
        /\ a.type_ = None /\ b.type_ # None

(***************************************************************************)
(* Properties of every operation of a store with the defaults.             *)
(***************************************************************************)

\* C4: a call of insert, update, insert_blob, update_blob,
\* insert_relationship or update_relationship that raises IntegrityError
\* leaves the three tables and the stash as they were: no row is added, no
\* field of a row (modification_time included) changes, and no bytes in the
\* stash are overwritten.
C4_IntegrityErrorChangesNothing ==
    [][last'.err = "IntegrityError" =>
        /\ last'.op \in {"insert", "update", "insert_blob", "update_blob",
                         "insert_relationship", "update_relationship"}
        /\ objects' = objects
        /\ blobs' = blobs
        /\ relationships' = relationships
        /\ stash' = stash
        /\ written' = written]_vars

\* update_blob with a new name and new data has just been refused.
C4_UpdateBlobRefused ==
    /\ last.op = "update_blob" /\ last.kw = {"new_name", "data"}
    /\ last.err = "IntegrityError"
    /\ \E b \in blobs : b.name # None /\ b.modification_time = NoTime

\* C6: on a store that does not allow hard deletes, delete, delete_blob and
\* delete_relationship with hide_only=False fail and change nothing, and no
\* call removes an object, blob or relationship row or an entry of the stash.
C6_NothingIsRemoved ==
    [][/\ (last'.op \in {"delete", "delete_blob", "delete_relationship"}
            /\ ~last'.hide_only) =>
                /\ last'.err = "AssertionError"
                /\ objects' = objects
                /\ blobs' = blobs
                /\ relationships' = relationships
                /\ stash' = stash
       /\ {o.uuid : o \in objects} \subseteq {o.uuid : o \in objects'}
       /\ {b.uuid : b \in blobs} \subseteq {b.uuid : b \in blobs'}
       /\ {x.uuid : x \in relationships} \subseteq {x.uuid : x \in relationships'}
       /\ DOMAIN stash \subseteq DOMAIN stash']_vars

\* A hard delete of a blob has just been refused; the blob and its bytes are
\* there.
C6_HardDeleteRefused ==
    /\ last.op = "delete_blob" /\ ~last.hide_only /\ last.err = "AssertionError"
    /\ \E b \in blobs : get_blob_key(DefaultStore, b.uuid) \in DOMAIN stash

(***************************************************************************)
(* Properties of a store that allows hard deletes.                         *)
(***************************************************************************)

\* C7: on a store that allows hard deletes, delete(o, hide_only=False) of an
\* object o, visible or hidden, that has a blob or a relationship in either
\* direction (hidden ones counted) raises DeletionError and removes no row;
\* of an object that has none, it removes o.
C7_DependentsBlockHardDelete ==
    \A o \in objects :
        LET r == BasicDB_delete(HardStore, St, <<ByUuid(o.uuid)>>, FALSE)
            dependents ==
                \/ \E b \in blobs : b.parent = o.uuid
                \/ \E x \in relationships : o.uuid \in {x.first, x.second}
        IN IF dependents
           THEN /\ r.err = "DeletionError"
                /\ r.s.objects = objects
                /\ r.s.blobs = blobs
                /\ r.s.relationships = relationships
           ELSE /\ r.err = Ok
                /\ r.s.objects = objects \ {o}

(***************************************************************************)
(* Properties of a store fixed to a namespace.                             *)
(***************************************************************************)

\* C8: on a store fixed to a namespace, insert with another namespace and
\* update with a namespace keyword of another value raise NamespaceError
\* whatever else they are given (the object addressed need not exist), and
\* the tables and the stash stay as they were.
C8_NamespaceConflictRefused ==
    /\ \A namespace \in {"s2", "s3"}, name \in {None, "a"}, blob \in {NoData, PyInt(1)} :
        LET r == BasicDB_insert(FixedStore, St, namespace, name, None, None, None,
                                EmptyExtra, blob, NoList, TRUE)
        IN r.err = "NamespaceError" /\ r.s = St
    /\ \A object_identifier \in ObjectIdentifiers({"a"}) :
        \A kwargs \in {[namespace |-> None], [namespace |-> "s2"],
                       [namespace |-> "s2", new_name |-> "a"],
                       [namespace |-> None, hidden |-> FALSE]} :
            LET r == BasicDB_update(FixedStore, St, object_identifier, kwargs)
            IN r.err = "NamespaceError" /\ r.s = St

\* The store fixed to s1 has just refused to move one of its objects to
\* another namespace.
C8_MoveRefused ==
    /\ last.store = "s1" /\ last.op = "update" /\ last.kw = {"namespace"}
    /\ last.err = "NamespaceError"
    /\ \E o \in objects : o.namespace = "s1"

C11_Resolved(self, x) ==
    {o \in objects :
        /\ ~o.hidden
        /\ x.kind = "name" => o.name = x.v /\ o.namespace = self.namespace
        /\ x.kind = "uuid" => o.uuid = x.v
        /\ x.kind = "instance" => o.uuid = x.inst.uuid
        /\ (x.kind # "name" /\ self.namespace # None) => o.namespace = self.namespace}

\* C11: get(rel_first=x, rel_type=t?) returns, as a list, exactly the visible
\* objects of the store's namespace that are the second endpoint of a visible
\* relationship whose first endpoint is x, of type t when t is given;
\* get(rel_second=y, ...) returns the first endpoints in the same way; an x
\* that has no relationships, or that is no object to the store, gives the
\* empty list.
C11_RelationshipFilters ==
    \A self \in {DefaultStore, FixedStore} :
        \A x \in ObjectIdentifiers({"a", "b"}), t \in {None, "t"} :
            LET matching == {r \in relationships : ~r.hidden /\ (t # None => r.type_ = t)}
                mine == {o \in objects : ~o.hidden /\ o.namespace = self.namespace}
                xs == {o.uuid : o \in C11_Resolved(self, x)}
                seconds == BasicDB_get(self, St,
                                [get_args EXCEPT !.rel_first = x, !.rel_type = t])
                firsts == BasicDB_get(self, St,
                                [get_args EXCEPT !.rel_second = x, !.rel_type = t])
            IN /\ seconds.err = Ok /\ ~seconds.single
               /\ seconds.rows = {o \in mine : \E r \in matching :
                                        r.first \in xs /\ r.second = o.uuid}
               /\ firsts.err = Ok /\ ~firsts.single
               /\ firsts.rows = {o \in mine : \E r \in matching :
                                        r.second \in xs /\ r.first = o.uuid}

\* A visible, untyped relationship from one visible object to another, both
\* in the absent namespace: the query by rel_first from the first object has
\* a result, the one by type t has none.
C11_OneEndpointFound ==
    \E a \in objects, b \in objects, r \in relationships :
        /\ a.uuid # b.uuid /\ ~a.hidden /\ ~b.hidden
        /\ a.namespace = None /\ b.namespace = None
        /\ r.first = a.uuid /\ r.second = b.uuid /\ ~r.hidden /\ r.type_ = None
        /\ BasicDB_get(DefaultStore, St,
                [get_args EXCEPT !.rel_first = ByUuid(a.uuid)]).rows = {b}
        /\ BasicDB_get(DefaultStore, St,
                [get_args EXCEPT !.rel_first = ByUuid(a.uuid), !.rel_type = "t"]).rows = {}

(***************************************************************************)
(* Properties of the extras.                                               *)
(***************************************************************************)

\* The assignments a caller makes to an instance before handing it to update:
\* [username, name, hidden, key, value], as `edited` takes them.
C12_Edits ==
    [username : {None, "third_person"}, name : {None, "a"}, hidden : {NoBool, Bool(TRUE)},
     key : {None, "key", "not_a_field"}, value : {IntV(4), StrHi}]

\* The instance of the visible object `o` as get returns it, changed by `e`.
C12_Instance(o, e) ==
    edited(Object_to_public(o), e.username, e.name, e.hidden, e.key, e.value)

\* What update(instance) raises, and the instances a following get of the
\* same uuid, hidden or not, returns: [err, got].
C12_Updated(o, e) ==
    LET r == BasicDB_update(DefaultStore, St, Instance(C12_Instance(o, e)), <<>>)
        after == BasicDB_get(DefaultStore, r.s,
                    [get_args EXCEPT !.uuid = o.uuid, !.include_hidden = TRUE])
    IN [err |-> r.err, got |-> {Object_to_public(x) : x \in after.rows}]

\* C12 as stated: after get, assignments to undeclared and declared
\* attributes of the instance and update(instance), a following get returns
\* the instance as the caller left it: the new extra key and the changed
\* fields, and every other declared field and extra key as it was stored.
C12_InstancePersistedUnchanged ==
    \A o \in objects, e \in C12_Edits :
        LET updated == C12_Updated(o, e)
        IN (~o.hidden /\ o.namespace = None /\ updated.err = Ok)
                => updated.got = {C12_Instance(o, e)}

\* C12, amended: the same, except that modification_time is the time of the
\* update.
C12_InstancePersisted ==
    \A o \in objects, e \in C12_Edits :
        LET updated == C12_Updated(o, e)
        IN (~o.hidden /\ o.namespace = None) =>
                /\ updated.err \in {Ok, "IntegrityError"}
                /\ updated.err = Ok =>
                    updated.got = {[C12_Instance(o, e) EXCEPT !.modification_time = now]}

\* An instance with the extra key 'key' was given the attribute not_a_field
\* and another username and handed to update: the object has both keys and
\* the new username.
C12_AttributeStored ==
    /\ last.op = "update" /\ last.kw = {} /\ last.err = Ok
    /\ \E o \in objects :
        /\ o.username = "third_person"
        /\ o.modification_time # NoTime
        /\ Object_to_public(o).extra = given
        /\ Object_getattr(Object_to_public(o), "key") = Got(IntV(5))
        /\ Object_getattr(Object_to_public(o), "not_a_field") = Got(StrHi)

\* C13: a call of insert, update, insert_blob or update_blob whose packed
\* extra is longer than the store's ceiling raises the assertion and leaves
\* every table and the stash as they were; a call whose packed extra is as
\* long as the ceiling or shorter, or whose store has no ceiling, does not
\* raise it, and when it returns the row it wrote holds the packed extra.
C13_CeilingEnforced ==
    [][LET extra_data == pack_extra(given').bytes
           over == last'.ceiling # NoSize /\ Len(extra_data) > last'.ceiling[1]
       IN (last'.op \in {"insert", "update", "insert_blob", "update_blob"}
                /\ given' # NoneV) =>
            /\ over => /\ last'.err = "AssertionError"
                       /\ UNCHANGED <<objects, blobs, relationships, stash, now, nuuid>>
            /\ ~over => /\ last'.err # "AssertionError"
                        /\ last'.err = Ok =>
                            \E row \in (objects' \ objects) \cup (blobs' \ blobs) :
                                row.extra_data = extra_data]_vars

\* Under the ceiling of 3 bytes a blob was inserted with an extra of 3 bytes,
\* and update_blob with new data and an extra of 4 bytes raised the
\* assertion: the blob and its bytes in the stash are as inserted.
C13_OversizeRejected ==
    /\ last.ceiling = Size(3) /\ last.op = "update_blob" /\ last.kw = {"extra", "data"}
    /\ last.err = "AssertionError"
    /\ Len(pack_extra(given).bytes) = 4
    /\ \E b \in blobs :
        /\ Len(b.extra_data) = 3 /\ b.modification_time = NoTime
        /\ stash[get_blob_key(CeilingStore, b.uuid)] = RawEmpty.bytes

(***************************************************************************)
(* Properties of insert with blobs.                                        *)
(***************************************************************************)

\* insert(blobs=items) on the store with the defaults, from the present state.
C14_Inserted(items) ==
    BasicDB_insert(DefaultStore, St, None, None, None, None, None, EmptyExtra,
                   NoData, List(items), TRUE)

\* C14: insert(blobs=items) whose k-th blob cannot be inserted raises the
\* error of that blob; the object row is stored, stamped with the time before
\* any blob, and so are the k-1 blobs before it, each stamped one commit
\* after its predecessor and with its bytes in the stash; no other row is
\* touched.  With no failing blob it returns and all blobs are stored.
C14_ObjectNotRolledBack ==
    \A items \in BlobDicts :
        LET r == C14_Inserted(items)
            fails == {j \in 1..Len(items) : ~isinstance_bytes(items[j].data)
                                              /\ ~picklable(items[j].data)}
            k == IF fails = {} THEN Len(items) + 1
                 ELSE CHOOSE j \in fails : \A i \in fails : j <= i
            new_objects == r.s.objects \ objects
            new_blobs == r.s.blobs \ blobs
        IN /\ r.err = IF fails = {} THEN Ok ELSE "TypeError"
           /\ objects \subseteq r.s.objects /\ blobs \subseteq r.s.blobs
           /\ Cardinality(new_objects) = 1
           /\ Cardinality(new_blobs) = k - 1
           /\ \A o \in new_objects :
                /\ o.creation_time = now
                /\ \A j \in 1..(k - 1) : \E b \in new_blobs :
                    /\ b.parent = o.uuid /\ b.name = items[j].name
                    /\ b.creation_time = now + j
                    /\ get_blob_key(DefaultStore, b.uuid) \in DOMAIN r.s.stash

\* insert with blobs raised TypeError and left an object with a blob named x
\* and no blob named y.
C14_FewerBlobsThanRequested ==
    /\ last.op = "insert" /\ last.kw = {"blobs"} /\ last.err = "TypeError"
    /\ \E o \in objects :
        /\ \E b \in blobs : b.parent = o.uuid /\ b.name = "x"
        /\ ~\E b \in blobs : b.parent = o.uuid /\ b.name = "y"

(***************************************************************************)
(* Properties of get.                                                      *)
(***************************************************************************)

\* The filters a caller may combine without tripping an assertion of get:
\* uuid excludes uuids and name, name excludes names, subtype needs type_.
C15_Queries ==
    LET unknown == uuid4(nuuid + 1)
        stored == {o.uuid : o \in objects}
        filters == [uuid : {None, unknown} \cup stored,
                    uuids : {NoList, List(<<>>)} \cup {List(<<u, unknown>>) : u \in stored},
                    namespace : {None, "s1"},
                    name : {None, "a"},
                    names : {NoList, List(<<>>), List(<<"a", "b">>)},
                    type_ : {None, "t"},
                    subtype : {None, "u"},
                    include_hidden : BOOLEAN]
    IN {[get_args EXCEPT !.uuid = f.uuid, !.uuids = f.uuids, !.namespace = f.namespace,
                         !.name = f.name, !.names = f.names, !.type_ = f.type_,
                         !.subtype = f.subtype, !.include_hidden = f.include_hidden] :
            f \in {g \in filters :
                    /\ g.uuid # None => ~g.uuids.some /\ g.name = None
                    /\ g.name # None => ~g.names.some
                    /\ g.subtype # None => g.type_ # None}}

\* The stored objects that satisfy every filter of `q` given to store `self`.
C15_Matching(self, q) ==
    LET namespace == IF q.namespace # None THEN q.namespace ELSE self.namespace
    IN {o \in objects :
            /\ q.include_hidden \/ ~o.hidden
            /\ o.namespace = namespace
            /\ q.uuid # None => o.uuid = q.uuid
            /\ q.uuids.some => \E i \in 1..Len(q.uuids.v) : o.uuid = q.uuids.v[i]
            /\ q.name # None => o.name = q.name
            /\ q.names.some => \E i \in 1..Len(q.names.v) : o.name = q.names.v[i]
            /\ q.type_ # None => o.type_ = q.type_
            /\ q.subtype # None => o.subtype = q.subtype}

\* C15: get returns exactly the stored objects that satisfy every filter
\* given, the namespace being the argument, else the store's, else the absent
\* one; by uuid or by one name it returns the one match or None, otherwise a
\* list.
C15_GetMatchesFilters ==
    \A self \in {DefaultStore, FixedStore} : \A q \in C15_Queries :
        LET matching == C15_Matching(self, q)
            got(r) ==
                /\ r.err = Ok
                /\ r.rows = matching
                /\ r.single = (q.uuid # None \/ q.name # None)
                /\ r.single => Cardinality(matching) <= 1
        IN got(BasicDB_get(self, St, q))

\* Two visible objects of type t in s1, one of subtype u and named a: the
\* store fixed to s1 gets both by type_ and the one by name, and the store
\* with the defaults gets nothing by the uuid of either.
C15_TypedObjectsFound ==
    \E a \in objects, b \in objects :
        /\ a.namespace = "s1" /\ b.namespace = "s1"
        /\ a.type_ = "t" /\ b.type_ = "t" /\ a.subtype = "u" /\ b.subtype = None
        /\ a.name = "a" /\ ~a.hidden /\ ~b.hidden
        /\ BasicDB_get(FixedStore, St, [get_args EXCEPT !.type_ = "t"]).rows = {a, b}
        /\ BasicDB_get(FixedStore, St, [get_args EXCEPT !.name = "a"]).rows = {a}
        /\ BasicDB_get(FixedStore, St, [get_args EXCEPT !.name = "a"]).single
        /\ BasicDB_get(DefaultStore, St, [get_args EXCEPT !.uuid = a.uuid]).rows = {}

(***************************************************************************)
(* Properties of get_blobs.                                                *)
(***************************************************************************)

\* The lists of one or two different visible objects, each given as the
\* instance or as its uuid.
C16_ObjectLists ==
    LET visible == {o \in objects : ~o.hidden /\ o.namespace = None}
        given_as(o) == {Instance(Object_to_public(o)), ByUuid(o.uuid)}
    IN UNION {{<<x>> : x \in given_as(o)} : o \in visible}
        \cup UNION {{<<x, y>> : x \in given_as(p[1]), y \in given_as(p[2])} :
                        p \in {q \in visible \X visible : q[1] # q[2]}}

\* C16: get_blobs of a list of existing visible objects returns a dict whose
\* keys are exactly the uuids of the objects given, each with the visible
\* blobs of that object, by name, by uuid or as a list, also for an object
\* that has no blob.
C16_KeyedByEveryObject ==
    \A l \in C16_ObjectLists : \A return_by \in {"name", "uuid", None} :
        LET uuids == Range(uuid_list(l))
            own(u) == {b \in blobs : b.parent = u /\ ~b.hidden}
            got(r) ==
                /\ r.err = Ok
                /\ DOMAIN r.ret = uuids
                /\ \A u \in uuids :
                    IF return_by = "name"
                    THEN /\ DOMAIN r.ret[u] = {b.name : b \in own(u)}
                         /\ \A b \in own(u) : r.ret[u][b.name] = Blob_to_public(b)
                    ELSE IF return_by = "uuid"
                    THEN /\ DOMAIN r.ret[u] = {b.uuid : b \in own(u)}
                         /\ \A b \in own(u) : r.ret[u][b.uuid] = Blob_to_public(b)
                    ELSE r.ret[u] = {Blob_to_public(b) : b \in own(u)}
        IN got(BasicDB_get_blobs(DefaultStore, St, List(l), return_by, FALSE))

\* C17: after the soft delete of a visible object no blob row has changed;
\* get_blobs of the object, given as instance, uuid or name, raises
\* ObjectNotFoundError, and with include_hidden it returns what it returned
\* before the delete: every blob of the object, hidden or not, as it was.
C17_SoftDeleteKeepsBlobs ==
    \A o \in {x \in objects : ~x.hidden} :
        LET own == {Blob_to_public(b) : b \in {x \in blobs : x.parent = o.uuid}}
            deleted(r) ==
                /\ r.err = Ok
                /\ r.s.blobs = blobs /\ r.s.stash = stash
                /\ \A i \in {Instance(Object_to_public(o)), ByUuid(o.uuid), ByName(o.name)} :
                    /\ BasicDB_get_blobs(DefaultStore, r.s, i, None, FALSE).err
                            = "ObjectNotFoundError"
                    /\ BasicDB_get_blobs(DefaultStore, r.s, i, None, TRUE)
                            = [err |-> Ok, ret |-> own]
                    /\ BasicDB_get_blobs(DefaultStore, St, i, None, TRUE)
                            = [err |-> Ok, ret |-> own]
        IN deleted(BasicDB_delete(DefaultStore, St, <<Instance(Object_to_public(o))>>, TRUE))

\* An object inserted with a blob was soft-deleted: get_blobs of it raises
\* ObjectNotFoundError, and with include_hidden returns the one blob, not
\* hidden.
C17_BlobOfHiddenObject ==
    /\ last.op = "delete" /\ last.hide_only /\ last.err = Ok
    /\ \E o \in objects, b \in blobs :
        /\ o.hidden /\ b.parent = o.uuid /\ ~b.hidden
        /\ BasicDB_get_blobs(DefaultStore, St, ByUuid(o.uuid), None, FALSE).err
                = "ObjectNotFoundError"
        /\ BasicDB_get_blobs(DefaultStore, St, ByUuid(o.uuid), None, TRUE).ret
                = {Blob_to_public(b)}

(***************************************************************************)
(* Properties of the packing of extras.                                    *)
(***************************************************************************)

\* `v` is built only from integers, floats, booleans, byte strings, text
\* strings, None, lists, tuples and dicts.
RECURSIVE C18_Supported(_)
C18_Supported(v) ==
    /\ v.kind \in {"int", "float", "bool", "bytes", "str", "none", "list", "tuple", "dict"}
    /\ \A i \in 1..Len(v.items) : C18_Supported(v.items[i])

\* `v` holds no integer of 2^64 or more and no NaN.
RECURSIVE C18_Packable(_)
C18_Packable(v) ==
    /\ v.kind = "int" => Len(v.b) <= 8
    /\ v.kind = "float" => equal(v, v)
    /\ \A i \in 1..Len(v.items) : C18_Packable(v.items[i])

\* unpack_extra(pack_extra(v)) == v
C18_Identity(v) ==
    LET unpacked(p) == p.err = Ok /\ equal(unpack_extra(p.bytes), v)
    IN unpacked(pack_extra(v))

\* C18 as stated: every value built only from the supported kinds, handed to
\* insert or update as the extra or inside it, is packed, and unpacking what
\* was packed gives an equal value of the same kinds.
C18_RoundTripOfEveryValue ==
    [][(given' # NoneV /\ C18_Supported(given')) =>
            /\ C18_Identity(given')
            /\ \A i \in 1..Len(given'.items) : C18_Identity(given'.items[i])]_vars

\* C18, amended: the same for the values that hold no integer of 2^64 or more
\* and no NaN; and the object the call wrote has an extra equal to the one
\* given.
C18_RoundTrip ==
    [][(given' # NoneV /\ C18_Supported(given') /\ C18_Packable(given')) =>
            /\ C18_Identity(given')
            /\ \A i \in 1..Len(given'.items) : C18_Identity(given'.items[i])
            /\ last'.err \in {Ok, "IntegrityError"}
            /\ last'.err = Ok =>
                    \E o \in objects' \ objects : equal(Object_to_public(o).extra, given')]_vars

\* The object was updated with {0: (0, 1, [2, 3, (-1, -5)])}: its extra has the
\* tuple of three elements under the key 0, the third a list whose third
\* element is a tuple.
C18_NestedTupleStored ==
    /\ last.op = "update" /\ last.err = Ok
    /\ \E o \in objects :
        LET v == dict_get(Object_to_public(o).extra.items, IntV(0))
        IN /\ Object_to_public(o).extra = given
           /\ dict_has(given.items, IntV(0))
           /\ v.kind = "tuple" /\ Len(v.items) = 3
           /\ v.items[3].kind = "list"
           /\ v.items[3].items[3] = TupleV(<<IntV(-1), IntV(-5)>>)

\* `v` holds an instance of a dataclass or of a named tuple.
RECURSIVE C19_HoldsInstance(_)
C19_HoldsInstance(v) ==
    \/ v.kind \in {"dataclass", "namedtuple"}
    \/ \E i \in 1..Len(v.items) : C19_HoldsInstance(v.items[i])

\* C19: packing a value that holds an instance of a dataclass or of a named
\* tuple, at the top or inside a list, a tuple or a dict, raises TypeError;
\* insert and update given such an extra raise it and write nothing.
C19_UnsupportedTypeRejected ==
    [][(given' # NoneV /\ C19_HoldsInstance(given')) =>
            /\ pack_extra(given').err = "TypeError"
            /\ \A i \in 1..Len(given'.items) :
                    C19_HoldsInstance(given'.items[i])
                        => pack_extra(given'.items[i]).err = "TypeError"
            /\ last'.err = "TypeError"
            /\ UNCHANGED <<objects, blobs, relationships, stash, now, nuuid>>]_vars

\* update was given {0: (0, Tmp2(0, 1))} and raised TypeError: the object has
\* the extra it was inserted with.
C19_NamedTupleRejected ==
    /\ last.op = "update" /\ last.err = "TypeError"
    /\ given = DictV(<<IntV(0), TupleV(<<IntV(0), NamedTupleV(<<IntV(0), IntV(1)>>)>>)>>)
    /\ \E o \in objects :
        /\ o.modification_time = NoTime
        /\ Object_to_public(o).extra = DictV(<<IntV(0), TupleV(<<IntV(0), IntV(1)>>)>>)

(***************************************************************************)
(* C20: item and attribute access on Object and Blob instances.            *)
(***************************************************************************)

\* Attribute names that are no declared field, and declared fields.
C20_Undeclared == {"key", "foo", "not_a_field"}

C20_Declared == {"name", "username", "hidden"}

C20_Values == {IntV(4), StrHi}

\* The values the extra of an instance holds under a key: one or none.
C20_At(inst, key) ==
    {inst.extra.items[2 * i] : i \in {j \in 1..(Len(inst.extra.items) \div 2) :
                                        inst.extra.items[2 * j - 1] = key}}

\* r is what reading extra[key] gives: the value under the key, or KeyError.
C20_Read(inst, key, r) ==
    IF C20_At(inst, key) = {} THEN r.err = "KeyError"
    ELSE r.err = Ok /\ C20_At(inst, key) = {r.ret}

\* after is before with value under key of its extra and nothing else changed:
\* the same fields, each but extra as it was, and the other keys of extra too.
C20_Stored(before, after, key, value) ==
    /\ DOMAIN after = DOMAIN before
    /\ \A f \in DOMAIN before \ {"extra"} : after[f] = before[f]
    /\ C20_At(after, key) = {value}
    /\ \A k \in ({attr_key(n) : n \in C20_Undeclared} \cup {IntV(2)}) \ {key} :
            C20_At(after, k) = C20_At(before, k)

\* after is before with value as its field and nothing else changed.
C20_Assigned(before, after, field, value) ==
    /\ DOMAIN after = DOMAIN before
    /\ after[field] = value
    /\ \A f \in DOMAIN before \ {field} : after[f] = before[f]

C20_Object(inst) ==
    /\ C20_Read(inst, IntV(2), Object_getitem(inst, IntV(2)))
    /\ \A k \in C20_Undeclared :
        /\ C20_Read(inst, attr_key(k), Object_getitem(inst, attr_key(k)))
        /\ C20_Read(inst, attr_key(k), Object_getattr(inst, k))
        /\ \A v \in C20_Values : C20_Stored(inst, Object_setattr(inst, k, v), attr_key(k), v)
    /\ \A f \in C20_Declared, v \in C20_Values :
            C20_Assigned(inst, Object_setattr(inst, f, v), f, v)

C20_Blob(inst) ==
    /\ C20_Read(inst, IntV(2), Blob_getitem(inst, IntV(2)))
    /\ \A k \in C20_Undeclared :
        /\ C20_Read(inst, attr_key(k), Blob_getitem(inst, attr_key(k)))
        /\ C20_Read(inst, attr_key(k), Blob_getattr(inst, k))
        /\ \A v \in C20_Values : C20_Stored(inst, Blob_setattr(inst, k, v), attr_key(k), v)
    /\ \A f \in C20_Declared, v \in C20_Values :
            C20_Assigned(inst, Blob_setattr(inst, f, v), f, v)

\* C20: on the instance of every stored object and blob, obj[key] and obj.key
\* of a key that is no declared field give extra[key], and KeyError when
\* extra has no such key; assigning obj.key of such a key puts the value
\* under the key in extra, adds no field and changes none but extra; and
\* assigning a declared field changes that field and leaves extra and every
\* other field as they were.
C20_UndeclaredKeysLiveInExtra ==
    /\ \A o \in objects : C20_Object(Object_to_public(o))
    /\ \A b \in blobs : C20_Blob(Blob_to_public(b))

\* An instance was given not_a_field = 'hi' and handed to update: the stored
\* object reads it back by attribute and raises KeyError for foo, and a blob
\* inserted with {'key': 5} reads key as 5 and raises KeyError for foo.
C20_AttributeReadBack ==
    /\ last.op = "update" /\ last.err = Ok
    /\ \E o \in objects, b \in blobs :
        /\ Object_getattr(Object_to_public(o), "not_a_field") = Got(StrHi)
        /\ Object_getattr(Object_to_public(o), "foo").err = "KeyError"
        /\ Blob_getattr(Blob_to_public(b), "key") = Got(IntV(5))
        /\ Blob_getitem(Blob_to_public(b), attr_key("foo")).err = "KeyError"

(***************************************************************************)
(* C21: the name of an object inserted without one.                        *)
(***************************************************************************)

\* The uuids get(name=name, namespace=namespace) of the store of the last
\* call returns in the state s; nothing when it raises.
C21_Got(s, store, name, namespace) ==
    LET found(r) == IF r.err = Ok THEN {o.uuid : o \in r.rows} ELSE {}
    IN found(BasicDB_get(BasicDB(store, FALSE), s,
                         [get_args EXCEPT !.name = name, !.namespace = namespace]))

\* The rows a step added, and the visible rows it changed, as they are after
\* it.
C21_Inserted == {o \in objects' : o.uuid \notin {x.uuid : x \in objects}}

C21_Changed == {o \in objects' \ objects : o.uuid \in {x.uuid : x \in objects} /\ ~o.hidden}

\* The rows a step renamed away from the textual form of their uuid.
C21_Renamed ==
    {o \in C21_Changed : \E x \in objects : x.uuid = o.uuid /\ x.name = str(x.uuid)}

\* C21 as stated: the object a successful insert without a name adds is named
\* str(uuid) and is what get(name=str(uuid)) returns, and after a successful
\* update(new_name=n) of a visible object still named so, get(name=n)
\* returns it and get(name=str(uuid)) does not.
C21_NamedByUuidInEveryNamespace ==
    [][/\ last'.op = "insert" /\ last'.err = Ok =>
            \A o \in C21_Inserted :
                /\ o.name = str(o.uuid)
                /\ C21_Got(St', last'.store, str(o.uuid), None) = {o.uuid}
       /\ last'.op = "update" /\ last'.err = Ok =>
            \A o \in C21_Renamed :
                /\ C21_Got(St', last'.store, o.name, None) = {o.uuid}
                /\ o.uuid \notin C21_Got(St', last'.store, str(o.uuid), None)]_vars

\* C21: the object a successful insert without a name adds is named
\* str(uuid) and is what get(name=str(uuid), namespace=its namespace)
\* returns, and after a successful update(new_name=n) of a visible object
\* still named so, with n other than str(uuid), get(name=n, namespace=its
\* namespace) returns it and get(name=str(uuid), namespace=its namespace)
\* does not.
C21_NamedByUuid ==
    [][/\ last'.op = "insert" /\ last'.err = Ok =>
            \A o \in C21_Inserted :
                /\ o.name = str(o.uuid)
                /\ C21_Got(St', last'.store, str(o.uuid), o.namespace) = {o.uuid}
       /\ last'.op = "update" /\ last'.err = Ok =>
            \A o \in C21_Renamed :
                o.name # str(o.uuid) =>
                    /\ C21_Got(St', last'.store, o.name, o.namespace) = {o.uuid}
                    /\ o.uuid \notin C21_Got(St', last'.store, str(o.uuid), o.namespace)]_vars

\* An object inserted without a name into s1 by the store with the defaults
\* was renamed to a: it is found under a in s1 and not under str(uuid).
C21_RenamedObject ==
    /\ last.op = "update" /\ last.err = Ok /\ last.store = None
    /\ \E o \in objects :
        /\ o.name = "a" /\ o.namespace = "s1" /\ ~o.hidden
        /\ C21_Got(St, None, "a", "s1") = {o.uuid}
        /\ C21_Got(St, None, str(o.uuid), "s1") = {}

(***************************************************************************)
(* C22: a hard delete against concurrent inserts of dependents.            *)
(***************************************************************************)

\* C22: no blob has a parent, and no relationship an endpoint, whose object
\* row is gone, in any state a hard delete and a concurrent insert_blob or
\* insert_relationship on the object can reach.
C22_NoDependentOfRemovedObject ==
    /\ \A b \in blobs : \E o \in objects : o.uuid = b.parent
    /\ \A r \in relationships :
        /\ \E o \in objects : o.uuid = r.first
        /\ \E o \in objects : o.uuid = r.second

(***************************************************************************)
(* C23: a store fixed to s1 against the objects of other namespaces.       *)
(***************************************************************************)

\* The objects outside s1 and their blobs.
C23_Foreign == {o \in objects : o.namespace # "s1"}

C23_ForeignBlobs == {b \in blobs : b.parent \in {o.uuid : o \in C23_Foreign}}

\* s has every row outside s1, every blob and stash entry of such a row, and
\* every relationship as the current state has them.
C23_Untouched(s) ==
    /\ {o \in s.objects : o.namespace # "s1"} = C23_Foreign
    /\ {b \in s.blobs : b.parent \in {o.uuid : o \in C23_Foreign}} = C23_ForeignBlobs
    /\ s.relationships = relationships
    /\ \A b \in C23_ForeignBlobs :
        LET key == get_blob_key(FixedStore, b.uuid)
        IN /\ (key \in DOMAIN s.stash) = (key \in DOMAIN stash)
           /\ key \in DOMAIN stash => s.stash[key] = stash[key]

\* The write r failed and touched nothing outside s1.
C23_Refused(r) == r.err # Ok /\ C23_Untouched(r.s)

\* C23: whatever the store fixed to s1 is asked about an object outside s1 or
\* a blob of one, by uuid or by name: get returns nothing, get_blobs and
\* load_blob raise, and update, delete, insert_blob, update_blob, delete_blob
\* and insert_relationship raise and leave every row outside s1, its blobs
\* and their stash entries as they were.
C23_OtherNamespaceOutOfReach ==
    /\ \A o \in C23_Foreign : \A i \in {ByUuid(o.uuid), ByName(o.name)} :
        /\ \A h \in BOOLEAN :
            /\ BasicDB_get(FixedStore, St,
                    [get_args EXCEPT !.uuid = o.uuid, !.include_hidden = h]).rows = {}
            /\ BasicDB_get(FixedStore, St,
                    [get_args EXCEPT !.name = o.name, !.include_hidden = h]).rows = {}
            /\ BasicDB_get_blobs(FixedStore, St, i, "name", h).err # Ok
            /\ BasicDB_get_blobs(FixedStore, St, List(<<ByUuid(o.uuid)>>), "name", h).err # Ok
        /\ \A n \in {None} \cup {b.name : b \in C23_ForeignBlobs} :
            /\ BasicDB_load_blob(FixedStore, St, i, n, None).err # Ok
            /\ \A kw \in {[hidden |-> TRUE], [data |-> RawPickle]} :
                    C23_Refused(BasicDB_update_blob(FixedStore, St, i, n, None, kw))
        /\ \A kw \in {[hidden |-> TRUE], [new_name |-> "a"], [namespace |-> "s1"]} :
                C23_Refused(BasicDB_update(FixedStore, St, i, kw))
        /\ C23_Refused(BasicDB_delete(FixedStore, St, <<ByUuid(o.uuid)>>, TRUE))
        /\ C23_Refused(BasicDB_insert_blob(FixedStore, St, i, "x", None, None,
                                           EmptyExtra, RawEmpty))
        /\ \A x \in objects :
            /\ C23_Refused(BasicDB_insert_relationship(FixedStore, St, i,
                                                       ByUuid(x.uuid), None, TRUE))
            /\ C23_Refused(BasicDB_insert_relationship(FixedStore, St, ByUuid(x.uuid),
                                                       i, None, TRUE))
    /\ \A b \in C23_ForeignBlobs :
        /\ BasicDB_load_blob(FixedStore, St, NoIdent, None, b.uuid).err # Ok
        /\ \A kw \in {[hidden |-> TRUE], [data |-> RawPickle]} :
                C23_Refused(BasicDB_update_blob(FixedStore, St, NoIdent, None, b.uuid, kw))
        /\ C23_Refused(BasicDB_delete_blob(FixedStore, St, <<ByUuid(b.uuid)>>, TRUE))

\* The store fixed to s1 was asked to hide a blob when every object was
\* outside s1, one in s2 with a visible blob: it raised AssertionError.
C23_ForeignBlobRefused ==
    /\ last.store = "s1" /\ last.op = "delete_blob" /\ last.err = "AssertionError"
    /\ objects # {} /\ \A o \in objects : o.namespace # "s1"
    /\ \E o \in objects, b \in blobs :
        o.namespace = "s2" /\ b.parent = o.uuid /\ ~b.hidden /\ ~o.hidden

(***************************************************************************)
(* C24: get_relationship on a store fixed to s1.                           *)
(***************************************************************************)

\* The filters handed to get_relationship: none, first, second and type_ in
\* every combination, or the uuid of a relationship, or a list of one.
C24_Filters ==
    [first : {NoIdent} \cup ObjectUuids, second : {NoIdent} \cup ObjectUuids,
     type_ : {NoType, TypeStr("t")}, uuid : {None}, uuids : {NoList}]
        \cup [first : {NoIdent}, second : {NoIdent}, type_ : {NoType},
              uuid : {x.uuid : x \in relationships}, uuids : {NoList}]
        \cup [first : {NoIdent}, second : {NoIdent}, type_ : {NoType},
              uuid : {None}, uuids : {List(<<x.uuid>>) : x \in relationships}]

\* The visible relationships that match the filters q and whose first object
\* is of s1.
C24_Matching(q) ==
    {x \in relationships :
        /\ ~x.hidden
        /\ q.first.kind # "none" => x.first = q.first.v
        /\ q.second.kind # "none" => x.second = q.second.v
        /\ q.type_.kind # "none" => x.type_ = q.type_.str
        /\ q.uuid # None => x.uuid = q.uuid
        /\ q.uuids.some => x.uuid \in Range(q.uuids.v)
        /\ \E o \in objects : o.uuid = x.first /\ o.namespace = "s1"}

\* C24: in every state, get_relationship of the store fixed to s1 raises
\* nothing and returns exactly the visible relationships that match the
\* filters and whose first object is of s1.
C24_RelationshipsOfOwnNamespace ==
    \A q \in C24_Filters :
        BasicDB_get_relationship(FixedStore, St, q.first, q.second, q.type_, q.uuid,
                                 q.uuids, FALSE)
            \in [err : {Ok}, rows : {C24_Matching(q)}, single : BOOLEAN]

\* The stash key of the blob `u`; every store keeps the same prefix.
C25_Key(u) == get_blob_key(HardStore, u)

C25_Drawn == {uuid4(i) : i \in 1..nuuid}

\* The step puts data under the key of the blob `u`.
C25_Put(u) ==
    /\ C25_Key(u) \in DOMAIN stash'
    /\ C25_Key(u) \notin DOMAIN stash \/ stash'[C25_Key(u)] # stash[C25_Key(u)]

\* The step deletes the key of the blob `u`.
C25_Deleted(u) == C25_Key(u) \in DOMAIN stash /\ C25_Key(u) \notin DOMAIN stash'

\* C25: a step of insert_blob or of update_blob with data that puts a stash
\* entry finds the blob's row, with the size of the data put, committed by an
\* earlier step and leaves the rows alone, and the call returns without an
\* error; a step of a hard delete_blob that deletes a stash entry finds the
\* blob's row removed by an earlier step, and the call returns without an
\* error; a call that ends with an error leaves the stash as it was.
C25_StashFollowsMetadata ==
    [][/\ DOMAIN stash' \subseteq {C25_Key(u) : u \in C25_Drawn}
       /\ \A u \in C25_Drawn :
            /\ C25_Put(u) =>
                /\ blobs' = blobs
                /\ \E b \in blobs : b.uuid = u /\ b.size = Len(stash'[C25_Key(u)])
                /\ last'.op \in {"insert_blob", "update_blob"}
                /\ last'.op = "update_blob" => "data" \in last'.kw
                /\ last'.err = Ok
            /\ C25_Deleted(u) =>
                /\ blobs' = blobs
                /\ \A b \in blobs : b.uuid # u
                /\ last'.op = "delete_blob"
                /\ ~last'.hide_only
                /\ last'.err = Ok
       /\ (running' # running /\ last'.err # Ok) => stash' = stash]_vars

\* A blob was inserted, given new data by update_blob and then deleted for
\* good: its row and its stash entry are gone.
C25_UpdatedThenRemoved ==
    /\ running = <<>>
    /\ last.op = "delete_blob" /\ ~last.hide_only /\ last.err = Ok
    /\ \E u \in DOMAIN written :
        /\ written[u] = RawPickle
        /\ C25_Key(u) \notin DOMAIN stash
        /\ \A b \in blobs : b.uuid # u

\* The stash keys of the blob rows, hidden rows included.
C26_Keys == {get_blob_key(DefaultStore, b.uuid) : b \in blobs}

\* C26: when no call is in progress the keys of the stash are exactly the
\* keys <prefix>/<uuid hex> of the blob rows, hidden rows included, and two
\* blob rows never have the same key.
C26_OneEntryPerBlob ==
    running = <<>> =>
        /\ DOMAIN stash = C26_Keys
        /\ \A a \in blobs, b \in blobs :
            get_blob_key(DefaultStore, a.uuid) = get_blob_key(DefaultStore, b.uuid)
                => a = b

\* A hard delete_blob has returned: the row and the entry of the blob it was
\* given are gone, the entry of a blob hidden or visible is still there.
C26_RemovedAndKept ==
    /\ running = <<>>
    /\ last.op = "delete_blob" /\ ~last.hide_only /\ last.err = Ok
    /\ \E u \in DOMAIN written :
        /\ get_blob_key(DefaultStore, u) \notin DOMAIN stash
        /\ \A b \in blobs : b.uuid # u
    /\ \E b \in blobs : get_blob_key(DefaultStore, b.uuid) \in DOMAIN stash

\* C27: when the with block of session_scope is left the session has been
\* closed once; if neither the body nor the commit raised, the commit was
\* done once, no rollback was, the rows of the session are the stored rows
\* and no error reaches the caller; if the body or the commit raised, no
\* commit took effect, the rollback was done once, the stored rows are those
\* found when the session was opened and the error raised reaches the caller.
C27_SessionSettledAndClosed ==
    [][("session_scope" \in DOMAIN running /\ "session_scope" \notin DOMAIN running') =>
        LET call == running["session_scope"]
        IN /\ call.closes = 1
           /\ last'.op = "session_scope" /\ last'.err = call.err
           /\ call.err = Ok =>
                /\ call.commits = 1 /\ call.rollbacks = 0
                /\ blobs' = call.pending.blobs
                /\ blobs' # call.before.blobs
           /\ call.err # Ok =>
                /\ call.commits = 0 /\ call.rollbacks = 1
                /\ St' = call.before
                /\ call.pending = call.before]_vars

\* A session whose commit raised has been left: the IntegrityError has
\* reached the caller, and an earlier session has stored its blob.
C27_CommitRefused ==
    /\ running = <<>>
    /\ last.op = "session_scope" /\ last.err = "sqla.exc.IntegrityError"
    /\ blobs # {}

\* The call of update with the instance fetched earlier returns in this step.
C28_Updated ==
    /\ "update" \in DOMAIN running /\ running["update"].pc = "fetched"
    /\ "update" \in DOMAIN running' /\ running'["update"].pc = "done"
    /\ last'.err = Ok

\* C28: when update(inst, **kw) returns, the row of inst.uuid holds the name,
\* type_, subtype, namespace, hidden, username and extra of the instance for
\* each of the seven keywords not in kw, whatever the row held before.
C28_InstanceWritten ==
    [][C28_Updated =>
        LET inst == running["update"].inst
        IN \E o \in objects' :
            /\ o.uuid = inst.uuid
            /\ "new_name" \notin last'.kw => o.name = inst.name
            /\ "type_" \notin last'.kw => o.type_ = inst.type_
            /\ "subtype" \notin last'.kw => o.subtype = inst.subtype
            /\ "namespace" \notin last'.kw => o.namespace = inst.namespace
            /\ "hidden" \notin last'.kw => o.hidden = inst.hidden
            /\ "username" \notin last'.kw => o.username = inst.username
            /\ "extra" \notin last'.kw => o.extra_data = pack_extra(inst.extra).bytes]_vars

\* update(inst) has returned for an instance fetched before the object was
\* hidden and renamed: the object is visible under its old name.
C28_VisibleAgain ==
    /\ "update" \in DOMAIN running /\ running["update"].pc = "done"
    /\ last.op = "update" /\ last.kw = {} /\ last.err = Ok
    /\ running["update"].found.hidden
    /\ running["update"].found.name # running["update"].inst.name
    /\ \E o \in objects :
        /\ o.uuid = running["update"].inst.uuid
        /\ ~o.hidden
        /\ o.name = running["update"].inst.name

\* The fields of a row that a call given the keywords `kw` may write.
C29_Passed(kw) ==
    (kw \ {"new_name", "new_type", "extra", "data"})
        \cup (IF "new_name" \in kw THEN {"name"} ELSE {})
        \cup (IF "new_type" \in kw THEN {"type_"} ELSE {})
        \cup (IF "extra" \in kw THEN {"extra_data"} ELSE {})
        \cup (IF "data" \in kw THEN {"size", "serialization"} ELSE {})

\* From `rows` to `rows2` at most one row has changed, in the fields `fields`
\* only; no row has come or gone.
C29_OnlyIn(rows, rows2, fields) ==
    /\ Cardinality(rows2) = Cardinality(rows)
    /\ Cardinality(rows \ rows2) <= 1
    /\ \A t \in rows \ rows2 :
        \E t2 \in rows2 \ rows :
            /\ t2.uuid = t.uuid
            /\ \A f \in DOMAIN t \ fields : t2[f] = t[f]

\* C29: a call of update changes nothing but the fields passed and
\* modification_time of one object row, a call of update_blob nothing but the
\* fields passed (size and serialization for data) and modification_time of
\* one blob row, a call of update_relationship nothing but the fields passed
\* of one relationship row; uuid, creation_time, parent, first and second
\* stay as they are.
C29_UpdatesWriteWhatIsPassed ==
    [][/\ last'.op = "update" =>
            /\ C29_OnlyIn(objects, objects',
                          C29_Passed(last'.kw) \cup {"modification_time"})
            /\ blobs' = blobs /\ relationships' = relationships
       /\ last'.op = "update_blob" =>
            /\ C29_OnlyIn(blobs, blobs',
                          C29_Passed(last'.kw) \cup {"modification_time"})
            /\ objects' = objects /\ relationships' = relationships
       /\ last'.op = "update_relationship" =>
            /\ C29_OnlyIn(relationships, relationships', C29_Passed(last'.kw))
            /\ objects' = objects /\ blobs' = blobs]_vars

\* update_relationship has given a hidden relationship a type and nothing
\* else: the relationship is still hidden.
C29_HiddenRetyped ==
    /\ last.op = "update_relationship" /\ last.kw = {"new_type"} /\ last.err = Ok
    /\ \E x \in relationships : x.hidden /\ x.type_ = "t"

C30_Calls ==
    {"insert_blob", "update_blob", "delete_blob",
     "insert_relationship", "update_relationship", "delete_relationship"}

\* C30: a call of insert_blob, update_blob, delete_blob, insert_relationship,
\* update_relationship or delete_relationship, returning or raising, leaves
\* every object row as it was, field by field.
C30_ObjectsUntouched ==
    [][last'.op \in C30_Calls => objects' = objects]_vars

\* delete_blob has hidden a blob of pickled data: its object is visible and
\* has never been modified.
C30_ParentAsInserted ==
    /\ last.op = "delete_blob" /\ last.err = Ok
    /\ \E b \in blobs, o \in objects :
        /\ b.parent = o.uuid
        /\ b.hidden /\ b.serialization # None
        /\ ~o.hidden /\ o.modification_time = NoTime

\* The rows of `rows2` that are not in `rows` under their uuid.
C31_New(rows, rows2) == {x \in rows2 : \A p \in rows : p.uuid # x.uuid}

\* The rows of `rows2` whose modification_time is not what `rows` holds for
\* them.
C31_Stamped(rows, rows2) ==
    {x \in rows2 : \E p \in rows :
        p.uuid = x.uuid /\ p.modification_time # x.modification_time}

\* C31: a row of an object or a blob is inserted without modification_time;
\* the modification_time of a row changes only in a call of update or of a
\* soft delete (for a blob, of update_blob or of a soft delete_blob) that
\* returns, and then to the time of the call; each such call that returns
\* gives one row the time of the call; a call that raises changes none.
C31_ModificationTime ==
    [][/\ \A x \in C31_New(objects, objects') \cup C31_New(blobs, blobs') :
            x.modification_time = NoTime
       /\ C31_Stamped(objects, objects') # {} =>
            /\ last'.err = Ok
            /\ last'.op = "update" \/ (last'.op = "delete" /\ last'.hide_only)
            /\ \A x \in C31_Stamped(objects, objects') : x.modification_time = now
       /\ C31_Stamped(blobs, blobs') # {} =>
            /\ last'.err = Ok
            /\ last'.op = "update_blob" \/ (last'.op = "delete_blob" /\ last'.hide_only)
            /\ \A x \in C31_Stamped(blobs, blobs') : x.modification_time = now
       /\ (last'.err = Ok /\ (last'.op = "update"
                              \/ (last'.op = "delete" /\ last'.hide_only))) =>
            Cardinality(C31_Stamped(objects, objects')) = 1
       /\ (last'.err = Ok /\ (last'.op = "update_blob"
                              \/ (last'.op = "delete_blob" /\ last'.hide_only))) =>
            Cardinality(C31_Stamped(blobs, blobs')) = 1]_vars

\* A soft delete_blob has returned: the blob carries the time of that call,
\* and an object updated or hidden earlier the time of that earlier call.
C31_StampedAndNot ==
    /\ last.op = "delete_blob" /\ last.hide_only /\ last.err = Ok
    /\ \E b \in blobs : b.hidden /\ b.modification_time = now - 1
    /\ \E o \in objects :
        o.modification_time # NoTime /\ o.modification_time < now - 1

\* The row that a call of update or update_blob has written in this step,
\* paired with the row as it was.
C32_Written ==
    {<<p, x>> \in (objects \X objects') \cup (blobs \X blobs') :
        p.uuid = x.uuid /\ p # x}

\* C32: when update(o, extra=E) or update_blob(b, extra=E) returns, the extra
\* of the row is E, and no key that the row's extra had and E has not is a
\* key of it.
C32_ExtraReplaced ==
    [][(last'.op \in {"update", "update_blob"} /\ last'.kw = {"extra"}
            /\ last'.err = Ok) =>
        /\ C32_Written # {}
        /\ \A w \in C32_Written :
            /\ equal(unpack_extra(w[2].extra_data), given')
            /\ \A i \in 1..Len(dict_keys(unpack_extra(w[1].extra_data).items)) :
                LET key == dict_keys(unpack_extra(w[1].extra_data).items)[i]
                IN ~dict_has(given'.items, key)
                    => ~dict_has(unpack_extra(w[2].extra_data).items, key)]_vars

\* update_blob(b, extra={2: 3}) has returned for a blob inserted with the
\* extra {'key': 5}, and an object inserted with that extra was given {}:
\* 'key' is a key of neither.
C32_KeyGone ==
    /\ last.op = "update_blob" /\ last.kw = {"extra"} /\ last.err = Ok
    /\ given = Extra23
    /\ \E b \in blobs :
        /\ b.modification_time = now - 1
        /\ unpack_extra(b.extra_data) = Extra23
    /\ \E o \in objects :
        /\ o.modification_time # NoTime
        /\ unpack_extra(o.extra_data) = EmptyExtra

(***************************************************************************)
(* C33: names on a store with no fixed namespace.                          *)
(***************************************************************************)

\* The objects called `n` in the absent namespace, hidden ones included or
\* not.
C33_Named(n, include_hidden) ==
    {o \in objects : o.name = n /\ o.namespace = None /\ (include_hidden \/ ~o.hidden)}

\* update(n, hidden=True) ended as `r`: it has hidden the object of the
\* absent namespace and changed no other row, or there is no such object and
\* it has raised and changed nothing.
C33_UpdateByName(n, r) ==
    /\ \A o \in objects \ C33_Named(n, TRUE) : o \in r.s.objects
    /\ IF C33_Named(n, TRUE) = {} THEN r.err # Ok /\ r.s = St
       ELSE /\ r.err = Ok
            /\ \A o \in C33_Named(n, TRUE) : \E x \in r.s.objects :
                    x.uuid = o.uuid /\ x.hidden /\ x.modification_time = now

\* insert_blob(n, 'z', data=b'') ended as `r`: the one new blob is a blob of
\* the visible object of the absent namespace, or there is no such object and
\* it has raised and changed nothing.
C33_InsertBlobByName(n, r) ==
    IF C33_Named(n, FALSE) = {} THEN r.err # Ok /\ r.s = St
    ELSE /\ r.err = Ok
         /\ Cardinality(r.s.blobs \ blobs) = 1
         /\ \A b \in r.s.blobs \ blobs : \E o \in C33_Named(n, FALSE) : b.parent = o.uuid

\* get_blobs(n, return_by='uuid') ended as `r`: it has returned the visible
\* blobs of the visible object of the absent namespace, or there is no such
\* object and it has raised.
C33_GetBlobsByName(n, r) ==
    IF C33_Named(n, FALSE) = {} THEN r.err # Ok
    ELSE /\ r.err = Ok
         /\ DOMAIN r.ret = {b.uuid : b \in {x \in blobs : ~x.hidden
                                /\ \E o \in C33_Named(n, FALSE) : x.parent = o.uuid}}

\* load_blob(n, name) ended as `r`: it has returned what load_blob returns
\* for the uuid of the visible blob of that name of the visible object of the
\* absent namespace, or there is no such blob and it has raised.
C33_LoadBlobByName(n, name, r) ==
    LET found == {b \in blobs : b.name = name /\ ~b.hidden
                    /\ \E o \in C33_Named(n, FALSE) : b.parent = o.uuid}
    IN IF found = {} THEN r.err # Ok
       ELSE \A b \in found : r = BasicDB_load_blob(DefaultStore, St, NoIdent, None, b.uuid)

\* C33: on the store with no fixed namespace a name stands for the object of
\* that name in the absent namespace and for no other: update, insert_blob,
\* get_blobs and load_blob given the name act on that object and its blobs,
\* and raise when there is none.
C33_NameMeansAbsentNamespace ==
    \A n \in {o.name : o \in objects} :
        /\ C33_UpdateByName(n, BasicDB_update(DefaultStore, St, ByName(n),
                                              [hidden |-> TRUE]))
        /\ C33_InsertBlobByName(n, BasicDB_insert_blob(DefaultStore, St, ByName(n), "z",
                                                       None, None, EmptyExtra, RawEmpty))
        /\ C33_GetBlobsByName(n, BasicDB_get_blobs(DefaultStore, St, ByName(n), "uuid",
                                                   FALSE))
        /\ \A name \in {None, "x"} :
            C33_LoadBlobByName(n, name, BasicDB_load_blob(DefaultStore, St, ByName(n),
                                                          name, None))

\* Two visible objects are called 'a', one in the absent namespace and one in
\* s1, and each has a visible blob called 'x'.
C33_SameNameTwice ==
    \E o \in objects, p \in objects, b \in blobs, c \in blobs :
        /\ o.name = "a" /\ o.namespace = None /\ ~o.hidden
        /\ p.name = "a" /\ p.namespace = "s1" /\ ~p.hidden
        /\ b.parent = o.uuid /\ b.name = "x" /\ ~b.hidden
        /\ c.parent = p.uuid /\ c.name = "x" /\ ~c.hidden

(***************************************************************************)
(* C34: update_relationship addressed by first, second and type_.          *)
(***************************************************************************)

\* The changes handed to update_relationship: new_type='u', which no
\* relationship has, or hidden=True.
C34_Changes == {[new_type |-> "u", hidden |-> NoBool], [new_type |-> None, hidden |-> Bool(TRUE)]}

\* The row `x` after the change `c`.
C34_Changed(x, c) ==
    [x EXCEPT !.type_ = IF c.new_type # None THEN c.new_type ELSE @,
              !.hidden = IF c.hidden # NoBool THEN c.hidden[1] ELSE @]

\* update_relationship(f, g, t, **c) ended as `r`: if `rows` is one row that
\* row is changed as c says and no other, and otherwise the call has raised
\* and nothing has changed.
C34_OneOf(rows, c, r) ==
    IF Cardinality(rows) = 1
    THEN /\ r.err = Ok
         /\ r.s.relationships = (relationships \ rows) \cup {C34_Changed(x, c) : x \in rows}
    ELSE r.err # Ok /\ r.s = St

\* The claim as it stands: the target is the relationship from f to g whose
\* type_ is t, an absent t standing for the relationship without a type.
C34_TripleIsTheTarget ==
    \A f \in objects, g \in objects, t \in {None, "t"}, c \in C34_Changes :
        C34_OneOf({x \in relationships : x.first = f.uuid /\ x.second = g.uuid
                                            /\ x.type_ = t},
                  c,
                  BasicDB_update_relationship(DefaultStore, St, ByUuid(f.uuid),
                        ByUuid(g.uuid), t, None, c.new_type, c.hidden))

\* C34: update_relationship(f, g, t, ...) with a type_ t changes the one
\* relationship from f to g of that type and no other; with no type_ it
\* changes the only relationship from f to g, whatever its type, and raises
\* without a change when there are several or none.
C34_TypedTripleIsTheTarget ==
    \A f \in objects, g \in objects, t \in {None, "t"}, c \in C34_Changes :
        C34_OneOf({x \in relationships : x.first = f.uuid /\ x.second = g.uuid
                                            /\ (t # None => x.type_ = t)},
                  c,
                  BasicDB_update_relationship(DefaultStore, St, ByUuid(f.uuid),
                        ByUuid(g.uuid), t, None, c.new_type, c.hidden))

\* update_relationship(f, g, 't', hidden=True) has hidden the relationship of
\* type 't' from f to g; the one without a type between the same two is
\* visible.
C34_OneOfTwoHidden ==
    /\ last.op = "update_relationship" /\ last.kw = {"hidden"} /\ last.err = Ok
    /\ \E x \in relationships, y \in relationships :
        /\ x.first = y.first /\ x.second = y.second
        /\ x.type_ = "t" /\ x.hidden
        /\ y.type_ = None /\ ~y.hidden

(***************************************************************************)
(* C35: insert_blob and insert_relationship on a missing or hidden object. *)
(***************************************************************************)

\* The identifiers handed in: every uuid drawn so far, those of blobs, of
\* relationships and of objects, one never drawn and one not yet drawn, and
\* the names 'a' and 'zz'.
C35_Identifiers ==
    {ByUuid(uuid4(n)) : n \in 0..(nuuid + 1)} \cup {ByName("a"), ByName("zz")}

\* The visible objects the identifier `i` stands for.
C35_Visible(i) ==
    {o \in objects : /\ ~o.hidden
                     /\ IF i.kind = "uuid" THEN o.uuid = i.v
                        ELSE o.name = i.v /\ o.namespace = None}

\* The call ended as `r`: it has raised, and rows and stash are as before.
C35_Refused(r) ==
    /\ r.err # Ok
    /\ r.s.objects = objects /\ r.s.blobs = blobs
    /\ r.s.relationships = relationships /\ r.s.stash = stash

\* C35: insert_blob on an object that does not exist or is hidden raises and
\* adds no blob row and no stash entry; insert_relationship with such an
\* object as either endpoint raises and adds no relationship row.
C35_NoRowOnMissingOrHidden ==
    /\ \A i \in C35_Identifiers, name \in {None, "x"}, data \in {RawEmpty, PyInt(1)} :
            C35_Visible(i) = {} =>
                C35_Refused(BasicDB_insert_blob(DefaultStore, St, i, name, None, None,
                                                EmptyExtra, data))
    /\ \A i \in C35_Identifiers, j \in C35_Identifiers, type_ \in {None, "t"} :
            C35_Visible(i) = {} \/ C35_Visible(j) = {} =>
                C35_Refused(BasicDB_insert_relationship(DefaultStore, St, i, j, type_, TRUE))

\* insert_relationship has just been refused where one object is hidden and
\* another is visible, and there is no relationship.
C35_HiddenEndpointRefused ==
    /\ last.op = "insert_relationship" /\ last.err = "AssertionError"
    /\ \E o \in objects, p \in objects : o.hidden /\ ~p.hidden
    /\ relationships = {}

(***************************************************************************)
(* C36: blobs and relationships point at object rows.                      *)
(***************************************************************************)

\* The uuids of the object rows, the hidden ones included.
C36_ObjectRows == {o.uuid : o \in objects}

\* C36: when calls run one after the other, the parent of every blob row and
\* both endpoints of every relationship row are uuids of object rows, hidden
\* or not.
C36_DependentsPointAtObjects ==
    /\ {b.parent : b \in blobs} \subseteq C36_ObjectRows
    /\ {x.first : x \in relationships} \cup {x.second : x \in relationships}
            \subseteq C36_ObjectRows

\* A hard delete has just removed an object row while a blob or a relationship
\* of another object is there.
C36_RemovedBesideDependents ==
    /\ last.op = "delete" /\ ~last.hide_only /\ last.err = Ok
    /\ Cardinality(objects) < nuuid - Cardinality(blobs) - Cardinality(relationships)
    /\ blobs # {} \/ relationships # {}

(***************************************************************************)
(* C37: two update_blob calls with data on one blob at the same time.      *)
(***************************************************************************)

\* Both threads have called update_blob with data on the blob `u` and both
\* calls have returned without an error.
C37_BothCompleted(u) ==
    \A t \in Threads :
        /\ t \in DOMAIN running
        /\ running[t].pc = "done" /\ running[t].err = Ok /\ running[t].uuid = u

\* C37: after two update_blob calls with data on one blob have both
\* completed, the row's size is the length of the bytes in the stash and
\* load_blob returns the data of one of the two calls.
C37_TagAndSizeOfBytesHeld ==
    \A b \in blobs :
        LET key == get_blob_key(DefaultStore, b.uuid)
            one_of(loaded) ==
                /\ loaded.err = Ok
                /\ \E t \in Threads : loaded.ret = running[t].kwargs.data
        IN C37_BothCompleted(b.uuid) =>
                /\ key \in DOMAIN stash
                /\ b.size = Len(stash[key])
                /\ one_of(BasicDB_load_blob(DefaultStore, St, NoIdent, None, b.uuid))

(***************************************************************************)
(* C38: delete, delete_blob and delete_relationship given a list.          *)
(***************************************************************************)

\* The stores that call: both allow hard deletes, one is fixed to s1.
C38_Stores == {BasicDB("s1", TRUE), HardStore}

\* The lists of one or two of `uuids` or of a uuid that no row has.
C38_Lists(uuids) ==
    LET given_ == uuids \cup {uuid4(0)}
    IN {<<ByUuid(a)>> : a \in given_} \cup {<<ByUuid(a), ByUuid(b)>> : a \in given_, b \in given_}

\* The object `u` is of the namespace the store `self` is fixed to, if any.
C38_Within(self, u) ==
    \E o \in objects : o.uuid = u /\ (self.namespace # None => o.namespace = self.namespace)

\* The list `l` names a uuid twice, or one that is not of `rows`, or one whose
\* row is not within the namespace of `self`; `of[u]` is the object that
\* decides the namespace of the row u.
C38_Bad(self, l, rows, of) ==
    \/ Len(l) = 2 /\ l[1] = l[2]
    \/ \E i \in 1..Len(l) :
        \/ l[i].v \notin rows
        \/ ~C38_Within(self, of[l[i].v])

\* The object `u` has a blob or is an endpoint of a relationship.
C38_Dependents(u) ==
    \/ \E b \in blobs : b.parent = u
    \/ \E x \in relationships : u \in {x.first, x.second}

\* The call ended as `r`: it has raised, and rows and stash are as before.
C38_Nothing(r) ==
    /\ r.err # Ok
    /\ r.s.objects = objects /\ r.s.blobs = blobs
    /\ r.s.relationships = relationships /\ r.s.stash = stash

\* C38: delete, delete_blob and delete_relationship given a list in which a
\* uuid does not exist, is outside the store's fixed namespace or is listed
\* twice, and a hard delete of objects one of which has dependents, raise and
\* hide or remove no row and delete no stash entry.
C38_ListAllOrNothing ==
    \A self \in C38_Stores, hide_only \in BOOLEAN :
        /\ \A l \in C38_Lists({o.uuid : o \in objects}) :
            (\/ C38_Bad(self, l, {o.uuid : o \in objects}, [u \in {o.uuid : o \in objects} |-> u])
             \/ ~hide_only /\ \E i \in 1..Len(l) : C38_Dependents(l[i].v))
                => C38_Nothing(BasicDB_delete(self, St, l, hide_only))
        /\ \A l \in C38_Lists({b.uuid : b \in blobs}) :
            C38_Bad(self, l, {b.uuid : b \in blobs},
                    [u \in {b.uuid : b \in blobs} |->
                        (CHOOSE b \in blobs : b.uuid = u).parent])
                => C38_Nothing(BasicDB_delete_blob(self, St, l, hide_only))
        /\ \A l \in C38_Lists({x.uuid : x \in relationships}) :
            C38_Bad(self, l, {x.uuid : x \in relationships},
                    [u \in {x.uuid : x \in relationships} |->
                        (CHOOSE x \in relationships : x.uuid = u).first])
                => C38_Nothing(BasicDB_delete_relationship(self, St, l, hide_only))

\* An object of s1 with a blob and a relationship, and an object of another
\* namespace: the lists of the two objects, of the blob twice and of the
\* relationship and a uuid that no row has are all refused.
C38_ListsToRefuse ==
    \E o \in objects, p \in objects :
        /\ o.namespace = "s1" /\ p.namespace # "s1"
        /\ \E b \in blobs : b.parent = o.uuid
        /\ \E x \in relationships : x.first = o.uuid

(***************************************************************************)
(* C39: exists.                                                            *)
(***************************************************************************)

\* The visible object rows with the uuid `u` in the namespace of the store
\* `self`: the one it is fixed to, or the absent one.
C39_Visible(self, u) ==
    {o \in objects : o.uuid = u /\ ~o.hidden /\ o.namespace = self.namespace}

\* C39: exists(o), given a uuid or an Object, raises nothing and is true
\* exactly when a visible object row with that uuid is in the store's own
\* namespace, the absent one for a store that is not fixed to any: it is
\* false for a hidden object, for a uuid without a row and for an object of
\* another namespace, and it is what get(uuid=o) finds.
C39_ExistsIsVisibleInNamespace ==
    \A self \in {DefaultStore, FixedStore} :
        /\ \A u \in {uuid4(n) : n \in 0..nuuid} :
            LET is(found, got) ==
                    /\ found = [err |-> Ok, ret |-> C39_Visible(self, u) # {}]
                    /\ got.err = Ok /\ got.rows = C39_Visible(self, u)
            IN is(BasicDB_exists(self, St, ByUuid(u)),
                  BasicDB_get(self, St, [get_args EXCEPT !.uuid = u]))
        /\ \A o \in objects :
            BasicDB_exists(self, St, Instance(Object_to_public(o)))
                = [err |-> Ok, ret |-> C39_Visible(self, o.uuid) # {}]

\* A soft delete has just hidden an object of s1 beside a visible object of
\* s1: exists is false for the first on every store and false for the second
\* on the store that is not fixed to a namespace.
C39_HiddenBesideNamespaced ==
    /\ last.op = "delete" /\ last.hide_only /\ last.err = Ok
    /\ \E o \in objects, p \in objects :
        /\ o.hidden /\ o.namespace = "s1" /\ o.modification_time = now - 1
        /\ ~p.hidden /\ p.namespace = "s1"

=============================================================================
